---- MODULE Spec2Model ----
(***************************************************************************)
(* Model of the AI classification pipeline of paper-analyzer               *)
(* (src/ai_utils.py): the text sampler, the tolerant JSON reply parser,    *)
(* the provider adapters and the chapter/topic orchestrators.              *)
(*                                                                         *)
(* Python values are tagged records, a str is a sequence of characters     *)
(* (each character a TLA+ string: the character itself, "backtick" for     *)
(* U+0060, or the decimal numeral of a position where a text of pairwise   *)
(* distinct characters is wanted), and the outcome of a call is            *)
(* Return(value) or Raise(exception).                                      *)
(***************************************************************************)
EXTENDS Integers, Sequences, FiniteSets, TLC

VARIABLES env, call, adapter, requests, ret, sleeps, uploads

vars == <<env, call, adapter, requests, ret, sleeps, uploads>>

(***************************************************************************)
(* Bounds of the model.                                                    *)
(***************************************************************************)
\* longest document text given to the sampler
MaxTextLen == 164
\* largest character budget given to the sampler
MaxChars == 162
\* most negative character budget given to the sampler is -MaxNegChars
MaxNegChars == 4
\* longest text over the two-letter alphabet given to the sampler
MaxShortLen == 3

(***************************************************************************)
(* Python values and call outcomes.                                        *)
(***************************************************************************)
PyNone == [t |-> "None"]
PyStr(s) == [t |-> "str", v |-> s]
PyNum(n) == [t |-> "num", v |-> n]
PyBool(b) == [t |-> "bool", v |-> b]
PyList(s) == [t |-> "list", v |-> s]
PyDict(f) == [t |-> "dict", v |-> f]

Return(v) == [ok |-> TRUE, val |-> v]
Raise(cls, msg) == [ok |-> FALSE, exc |-> [cls |-> cls, msg |-> msg]]
\* no call has returned yet
Pending == [ok |-> FALSE, exc |-> [cls |-> "pending", msg |-> <<>>]]

Min(a, b) == IF a < b THEN a ELSE b
Max(a, b) == IF a > b THEN a ELSE b

\* Python's index normalisation inside a slice: a negative index counts from
\* the end, and the result is clamped to 0..n.
ClampIndex(i, n) == IF i < 0 THEN Max(i + n, 0) ELSE Min(i, n)

\* s[start:stop]
Slice(s, start, stop) ==
    LET lo == ClampIndex(start, Len(s))
        hi == ClampIndex(stop, Len(s))
    IN  IF lo >= hi THEN <<>> ELSE SubSeq(s, lo + 1, hi)

\* s[:stop]
SliceTo(s, stop) == Slice(s, 0, stop)

\* s[start:]
SliceFrom(s, start) == Slice(s, start, Len(s))

(***************************************************************************)
(* _sample_text (src/ai_utils.py 389-417).                                 *)
(***************************************************************************)
MiddleMarker ==
    <<"\n", "\n", "[", ".", ".", ".", " ", "m", "i", "d", "d", "l", "e", " ",
      "s", "e", "c", "t", "i", "o", "n", " ", ".", ".", ".", "]", "\n", "\n">>

EndMarker ==
    <<"\n", "\n", "[", ".", ".", ".", " ", "e", "n", "d", " ", "s", "e", "c",
      "t", "i", "o", "n", " ", ".", ".", ".", "]", "\n", "\n">>

FalsyEmptyOnly(v) == v.t = "str" /\ v.v = <<>>

\* `not text`: None and the empty string are falsy
Falsy(v) == v.t = "None" \/ (v.t = "str" /\ v.v = <<>>)

FitsBudgetStrict(text_len, max_chars) == text_len < max_chars

\* `text_len <= max_chars`
FitsBudget(text_len, max_chars) == text_len <= max_chars

\* `max_chars // 3` (\div floors, as // does)
ChunkSize(max_chars) == max_chars \div 3

MiddleStartAtHalf(text_len, chunk_size) == text_len \div 2

\* `text_len // 2 - chunk_size // 2`
MiddleStart(text_len, chunk_size) == text_len \div 2 - chunk_size \div 2

\* beginning + marker + middle + marker + end
Combined(beginning, middle, end) ==
    beginning \o MiddleMarker \o middle \o EndMarker \o end

TruncateOff(combined, max_chars) == combined

\* `combined[:max_chars]`
Truncate(combined, max_chars) == SliceTo(combined, max_chars)

_sample_text(text, max_chars) ==
    IF Falsy(text) THEN Return(<<>>)
    ELSE IF text.t # "str"
    THEN Raise("TypeError", <<>>)            \* len() of a non-string
    ELSE
      LET t == text.v
          text_len == Len(t)
      IN  IF FitsBudget(text_len, max_chars) THEN Return(t)
          ELSE
            LET chunk_size == ChunkSize(max_chars)
                beginning == SliceTo(t, chunk_size)
                middle_start == MiddleStart(text_len, chunk_size)
                middle == Slice(t, middle_start, middle_start + chunk_size)
                end == SliceFrom(t, -chunk_size)
            IN  Return(Truncate(Combined(beginning, middle, end), max_chars))

(***************************************************************************)
(* Inputs of the sampler.  Slicing never looks at the characters, so a     *)
(* text of pairwise distinct characters shows every index the sampler      *)
(* uses; short texts over two letters and None are added.                  *)
(***************************************************************************)
PosText(n) == [i \in 1..n |-> ToString(i)]

RECURSIVE SeqsUpTo(_, _)
SeqsUpTo(S, n) ==
    IF n = 0 THEN {<<>>}
    ELSE LET shorter == SeqsUpTo(S, n - 1)
         IN  shorter \cup {Append(s, c) : s \in shorter, c \in S}

SampleTexts ==
    {PyNone} \cup {PyStr(PosText(n)) : n \in 0..MaxTextLen}
             \cup {PyStr(s) : s \in SeqsUpTo({"a", "b"}, MaxShortLen)}

SampleBudgets == (0 - MaxNegChars)..MaxChars

NoEnv == [none |-> TRUE]
NoAdapter == [called |-> FALSE]

InitSample ==
    /\ env = NoEnv
    /\ call \in [fn : {"_sample_text"}, text : SampleTexts, max_chars : SampleBudgets]
    /\ adapter = NoAdapter
    /\ requests = <<>>
    /\ ret = Pending
    /\ sleeps = <<>>
    /\ uploads = {}

SampleText ==
    /\ call.fn = "_sample_text"
    /\ ret = Pending
    /\ ret' = _sample_text(call.text, call.max_chars)
    /\ UNCHANGED <<env, call, adapter, requests, sleeps, uploads>>

NextSample == SampleText

SpecSample == InitSample /\ [][NextSample]_vars

Sampled == call.fn = "_sample_text" /\ ret # Pending

(***************************************************************************)
(* C5: for every text and every max_chars >= 0 the sample is at most       *)
(* max_chars characters long, also when the three chunks and the two       *)
(* markers together are longer than the budget.                            *)
(***************************************************************************)
C5_SampleWithinBudget ==
    (Sampled /\ call.max_chars >= 0)
        => (ret.ok /\ Len(ret.val) <= call.max_chars)

\* a long text whose three chunks plus markers overshoot the budget
C5_Witness ==
    /\ Sampled
    /\ call.text.t = "str"
    /\ call.max_chars >= 3
    /\ Len(call.text.v) > call.max_chars
    /\ 3 * (call.max_chars \div 3) + Len(MiddleMarker) + Len(EndMarker) > call.max_chars
    /\ ret.ok
    /\ Len(ret.val) = call.max_chars

(***************************************************************************)
(* C6: a text no longer than max_chars is returned unchanged.              *)
(***************************************************************************)
C6_ShortTextUnchanged ==
    (Sampled /\ call.text.t = "str" /\ Len(call.text.v) <= call.max_chars)
        => ret = Return(call.text.v)

\* a non-empty text exactly as long as the budget has been sampled
C6_Witness ==
    /\ Sampled
    /\ call.text.t = "str"
    /\ Len(call.text.v) = call.max_chars
    /\ call.max_chars > 0
    /\ ret = Return(call.text.v)

(***************************************************************************)
(* The three document regions as the specification words them, written     *)
(* with 1-based SubSeq and independently of the slices of _sample_text.    *)
(***************************************************************************)
Chunk == call.max_chars \div 3

HeadRegion == SubSeq(call.text.v, 1, Chunk)

MiddleRegion ==
    LET first == Len(call.text.v) \div 2 - Chunk \div 2
    IN  SubSeq(call.text.v, first + 1, first + Chunk)

TailRegion == SubSeq(call.text.v, Len(call.text.v) - Chunk + 1, Len(call.text.v))

JoinedRegions ==
    HeadRegion \o MiddleMarker \o MiddleRegion \o EndMarker \o TailRegion

LongTextSampled ==
    /\ Sampled
    /\ call.text.t = "str"
    /\ call.max_chars >= 0
    /\ Len(call.text.v) > call.max_chars

\* number of characters of the tail region that survive the truncation
TailKept == Max(0, call.max_chars - 2 * Chunk - Len(MiddleMarker) - Len(EndMarker))

JsonWhitespace == {" ", "\t", "\n", "\r"}

\* characters json rejects inside a string literal (strict mode)
ControlChars == {"\t", "\n", "\r"}

DigitChars == <<"0", "1", "2", "3", "4", "5", "6", "7", "8", "9">>

IsDigit(c) == \E d \in 1..10 : DigitChars[d] = c

DigitValue(c) == (CHOOSE d \in 1..10 : DigitChars[d] = c) - 1

Scanned(v, next) == [ok |-> TRUE, val |-> v, end |-> next]
NoScan == [ok |-> FALSE]

\* the character at 1-based index i, "" past the end
At(s, i) == IF i >= 1 /\ i <= Len(s) THEN s[i] ELSE ""

HasPrefixAt(s, i, p) ==
    /\ i + Len(p) - 1 <= Len(s)
    /\ SubSeq(s, i, i + Len(p) - 1) = p

RECURSIVE SkipWhitespace(_, _)
SkipWhitespace(s, i) ==
    IF i <= Len(s) /\ s[i] \in JsonWhitespace THEN SkipWhitespace(s, i + 1) ELSE i

\* index just after the run of digits that starts at i
RECURSIVE DigitsEnd(_, _)
DigitsEnd(s, i) == IF IsDigit(At(s, i)) THEN DigitsEnd(s, i + 1) ELSE i

\* the natural number written by the digits s[i..j-1]
RECURSIVE DigitsValue(_, _, _)
DigitsValue(s, i, j) ==
    IF i >= j THEN 0 ELSE DigitsValue(s, i, j - 1) * 10 + DigitValue(s[j - 1])

RECURSIVE Pow10(_)
Pow10(n) == IF n <= 0 THEN 1 ELSE 10 * Pow10(n - 1)

RECURSIVE Normalised(_, _, _)
Normalised(neg, m, k) ==
    IF m = 0 THEN [neg |-> FALSE, m |-> 0, k |-> 0]
    ELSE IF m % 10 = 0 THEN Normalised(neg, m \div 10, k + 1)
    ELSE [neg |-> neg, m |-> m, k |-> k]

\* NUMBER_RE: -?(0|[1-9]\d*)(\.\d+)?([eE][-+]?\d+)?
\* index just after the integer part that starts at int0
IntEnd(s, int0) == IF At(s, int0) = "0" THEN int0 + 1 ELSE DigitsEnd(s, int0)

\* index just after the fraction, int1 when there is none
HasFrac(s, int1) == At(s, int1) = "." /\ IsDigit(At(s, int1 + 1))
FracEnd(s, int1) == IF HasFrac(s, int1) THEN DigitsEnd(s, int1 + 1) ELSE int1

\* index of the first digit of the exponent, after its optional sign
ExpDigits(s, frac1) == IF At(s, frac1 + 1) \in {"-", "+"} THEN frac1 + 2 ELSE frac1 + 1

\* index just after the exponent, frac1 when there is none
HasExp(s, frac1) == At(s, frac1) \in {"e", "E"} /\ IsDigit(At(s, ExpDigits(s, frac1)))
ExpEnd(s, frac1) == IF HasExp(s, frac1) THEN DigitsEnd(s, ExpDigits(s, frac1)) ELSE frac1

\* the exponent written at frac1..exp1-1, 0 when there is none
ExpValue(s, frac1, exp1) ==
    IF ~HasExp(s, frac1) THEN 0
    ELSE IF At(s, frac1 + 1) = "-" THEN 0 - DigitsValue(s, ExpDigits(s, frac1), exp1)
    ELSE DigitsValue(s, ExpDigits(s, frac1), exp1)

\* the digits of the integer part and of the fraction as one natural number
Mantissa(s, int0, int1, frac1) ==
    IF HasFrac(s, int1)
    THEN DigitsValue(s, int0, int1) * Pow10(frac1 - (int1 + 1))
            + DigitsValue(s, int1 + 1, frac1)
    ELSE DigitsValue(s, int0, int1)

\* number of digits of the fraction
FracDigits(s, int1, frac1) == IF HasFrac(s, int1) THEN frac1 - (int1 + 1) ELSE 0

\* the number whose integer part is s[int0..int1-1], fraction ends before
\* frac1 and exponent before exp1
NumberValue(s, neg, int0, int1, frac1, exp1) ==
    Scanned(PyNum(Normalised(neg, Mantissa(s, int0, int1, frac1),
                             ExpValue(s, frac1, exp1) - FracDigits(s, int1, frac1))),
            exp1)

NumberFromFrac(s, neg, int0, int1, frac1) ==
    NumberValue(s, neg, int0, int1, frac1, ExpEnd(s, frac1))

NumberFromInt(s, neg, int0, int1) ==
    NumberFromFrac(s, neg, int0, int1, FracEnd(s, int1))

NumberFrom(s, neg, int0) ==
    IF ~IsDigit(At(s, int0)) THEN NoScan
    ELSE NumberFromInt(s, neg, int0, IntEnd(s, int0))

ScanNumber(s, i) ==
    IF At(s, i) = "-" THEN NumberFrom(s, TRUE, i + 1) ELSE NumberFrom(s, FALSE, i)

\* py_scanstring from just after the opening quote
RECURSIVE ScanString(_, _, _)
ScanString(s, i, acc) ==
    IF i > Len(s) THEN NoScan                       \* unterminated string
    ELSE IF s[i] = "\"" THEN Scanned(PyStr(acc), i + 1)
    ELSE IF s[i] \in ControlChars THEN NoScan       \* invalid control character
    ELSE ScanString(s, i + 1, Append(acc, s[i]))

\* dict assignment d[key] = value: a later duplicate key overrides
DictSet(d, key, value) ==
    [x \in (DOMAIN d) \cup {key} |-> IF x = key THEN value ELSE d[x]]

EmptyDict == [x \in {} |-> PyNone]

RECURSIVE ScanOnce(_, _)
RECURSIVE ScanMembers(_, _, _)
RECURSIVE ScanItems(_, _, _)

\* JSONObject after a key's opening quote at index i
ScanMembers(s, i, acc) ==
    LET key == ScanString(s, i + 1, <<>>)
    IN  IF ~key.ok THEN NoScan
        ELSE
          LET colon == SkipWhitespace(s, key.end)
          IN  IF At(s, colon) # ":" THEN NoScan
              ELSE
                LET value == ScanOnce(s, SkipWhitespace(s, colon + 1))
                IN  IF ~value.ok THEN NoScan
                    ELSE
                      LET after == SkipWhitespace(s, value.end)
                          acc2 == DictSet(acc, key.val.v, value.val)
                      IN  IF At(s, after) = "}" THEN Scanned(PyDict(acc2), after + 1)
                          ELSE IF At(s, after) # "," THEN NoScan
                          ELSE
                            LET nextKey == SkipWhitespace(s, after + 1)
                            IN  IF At(s, nextKey) # "\"" THEN NoScan
                                ELSE ScanMembers(s, nextKey, acc2)

\* JSONObject from just after the opening brace
ScanObject(s, i) ==
    LET first == SkipWhitespace(s, i)
    IN  IF At(s, first) = "}" THEN Scanned(PyDict(EmptyDict), first + 1)
        ELSE IF At(s, first) # "\"" THEN NoScan
        ELSE ScanMembers(s, first, EmptyDict)

\* JSONArray with the next value expected at index i
ScanItems(s, i, acc) ==
    LET value == ScanOnce(s, i)
    IN  IF ~value.ok THEN NoScan
        ELSE
          LET after == SkipWhitespace(s, value.end)
              acc2 == Append(acc, value.val)
          IN  IF At(s, after) = "]" THEN Scanned(PyList(acc2), after + 1)
              ELSE IF At(s, after) # "," THEN NoScan
              ELSE ScanItems(s, SkipWhitespace(s, after + 1), acc2)

\* JSONArray from just after the opening bracket
ScanArray(s, i) ==
    LET first == SkipWhitespace(s, i)
    IN  IF At(s, first) = "]" THEN Scanned(PyList(<<>>), first + 1)
        ELSE ScanItems(s, first, <<>>)

\* scanner.scan_once
ScanOnce(s, i) ==
    LET c == At(s, i)
    IN  IF c = "" THEN NoScan
        ELSE IF c = "\"" THEN ScanString(s, i + 1, <<>>)
        ELSE IF c = "{" THEN ScanObject(s, i + 1)
        ELSE IF c = "[" THEN ScanArray(s, i + 1)
        ELSE IF HasPrefixAt(s, i, <<"n", "u", "l", "l">>) THEN Scanned(PyNone, i + 4)
        ELSE IF HasPrefixAt(s, i, <<"t", "r", "u", "e">>) THEN Scanned(PyBool(TRUE), i + 4)
        ELSE IF HasPrefixAt(s, i, <<"f", "a", "l", "s", "e">>)
        THEN Scanned(PyBool(FALSE), i + 5)
        ELSE IF ScanNumber(s, i).ok THEN ScanNumber(s, i)
        ELSE IF HasPrefixAt(s, i, <<"N", "a", "N">>)
        THEN Scanned([t |-> "float", v |-> "nan"], i + 3)
        ELSE IF HasPrefixAt(s, i, <<"I", "n", "f", "i", "n", "i", "t", "y">>)
        THEN Scanned([t |-> "float", v |-> "inf"], i + 8)
        ELSE IF HasPrefixAt(s, i, <<"-", "I", "n", "f", "i", "n", "i", "t", "y">>)
        THEN Scanned([t |-> "float", v |-> "-inf"], i + 9)
        ELSE NoScan

\* json.loads(s) for a str s: one value between optional whitespace
json_loads(s) ==
    LET value == ScanOnce(s, SkipWhitespace(s, 1))
    IN  IF ~value.ok THEN Raise("JSONDecodeError", <<>>)
        ELSE IF SkipWhitespace(s, value.end) # Len(s) + 1
        THEN Raise("JSONDecodeError", <<>>)         \* extra data
        ELSE Return(value.val)

(***************************************************************************)
(* _extract_json (src/ai_utils.py 427-464).                                *)
(***************************************************************************)
\* characters str.strip() removes
StripChars == {" ", "\t", "\n", "\r"}

RECURSIVE LStrip(_)
LStrip(s) == IF s # <<>> /\ Head(s) \in StripChars THEN LStrip(Tail(s)) ELSE s

RECURSIVE RStrip(_)
RStrip(s) ==
    IF s # <<>> /\ s[Len(s)] \in StripChars THEN RStrip(SubSeq(s, 1, Len(s) - 1)) ELSE s

Strip(s) == RStrip(LStrip(s))

\* U+0060, which a TLA+ string literal cannot hold, is the character "backtick"
Backtick == "backtick"

\* the three-backtick fence marker
Fence == <<Backtick, Backtick, Backtick>>

StartsWith(s, p) == HasPrefixAt(s, 1, p)

EndsWith(s, p) == Len(p) <= Len(s) /\ SubSeq(s, Len(s) - Len(p) + 1, Len(s)) = p

\* s.find(c): 0-based index of the first c, -1 when there is none
Find(s, c) ==
    IF \E i \in 1..Len(s) : s[i] = c
    THEN (CHOOSE i \in 1..Len(s) : s[i] = c /\ \A j \in 1..(i - 1) : s[j] # c) - 1
    ELSE -1

\* s.rfind(c), likewise
RFind(s, c) ==
    IF \E i \in 1..Len(s) : s[i] = c
    THEN (CHOOSE i \in 1..Len(s) : s[i] = c /\ \A j \in (i + 1)..Len(s) : s[j] # c) - 1
    ELSE -1

\* lines 435-437: drop the opening fence line if the text has a newline
SkipFirstLine(s) ==
    LET first_newline == Find(s, "\n")
    IN  IF first_newline # -1 THEN SliceFrom(s, first_newline + 1) ELSE s

\* lines 440-441: drop a closing fence
DropClosingFence(s) == IF EndsWith(s, Fence) THEN SliceTo(s, -3) ELSE s

\* lines 430-443
CleanedText(text) ==
    LET stripped == Strip(text)
    IN  IF StartsWith(stripped, Fence)
        THEN Strip(DropClosingFence(SkipFirstLine(stripped)))
        ELSE stripped

NoMatch == [found |-> FALSE]

BraceMatchLazy(s) ==
    LET first == Find(s, "{")
        rest == SliceFrom(s, first + 1)
    IN  IF first = -1 \/ Find(rest, "}") = -1 THEN NoMatch
        ELSE [found |-> TRUE, group |-> Slice(s, first, first + 1 + Find(rest, "}") + 1)]

\* re.search(r'\{[\s\S]*\}', s): from the first "{" to the last "}" after it
BraceMatch(s) ==
    LET first == Find(s, "{")
        last == RFind(s, "}")
    IN  IF first = -1 \/ last < first THEN NoMatch
        ELSE [found |-> TRUE, group |-> Slice(s, first, last + 1)]

FallbackNone == Return(PyNone)

\* line 464: the value returned when every stage has failed
Fallback == Return(PyDict(EmptyDict))

IsDecodeError(r) == ~r.ok /\ r.exc.cls = "JSONDecodeError"

\* lines 453-457: the matched region is parsed; without a match the stage
\* is skipped like a failed parse
ParseMatch(json_match) ==
    IF json_match.found THEN json_loads(json_match.group)
    ELSE Raise("JSONDecodeError", <<>>)

\* lines 446-464: the first stage that does not fail with JSONDecodeError
\* decides, and {} is returned when all three fail
FirstParsed(direct, region, original) ==
    IF ~IsDecodeError(direct) THEN direct
    ELSE IF ~IsDecodeError(region) THEN region
    ELSE IF ~IsDecodeError(original) THEN original
    ELSE Fallback

_extract_json(text) ==
    IF text.t # "str" THEN Raise("AttributeError", <<>>)     \* None.strip()
    ELSE FirstParsed(json_loads(CleanedText(text.v)),
                     ParseMatch(BraceMatch(CleanedText(text.v))),
                     json_loads(text.v))

(***************************************************************************)
(* Replies given to _extract_json: a JSON object inside a triple-backtick  *)
(* fence with prose before and after it, and free texts.  Each payload is  *)
(* written twice, as the text a provider sends and as the mapping it       *)
(* denotes.                                                                *)
(***************************************************************************)
\* longest generated prose before or after a fenced block
MaxProseLen == 2
\* longest generated free text
MaxFreeLen == 3

EmptyPayload ==
    [text |->
      <<"{", "}">>,
     value |->
      PyDict(EmptyDict)]

SmallPayload ==
    [text |->
      <<"{", "\"", "a", "\"", ":", " ", "1", "}">>,
     value |->
      PyDict((<<"a">> :> PyNum([neg |-> FALSE, m |-> 1, k |-> 0])))]

TopicsPayload ==
    [text |->
      <<"{", "\"", "t", "o", "p", "i", "c", "s", "\"", ":", "[", "{", "\"",
      "t", "o", "p", "i", "c", "\"", ":", "\"", "O", "h", "m", "'", "s", " ",
      "L", "a", "w", "\"", ",", "\"", "r", "e", "l", "e", "v", "a", "n", "c",
      "e", "\"", ":", "0", ".", "9", "}", "]", "}">>,
     value |->
      PyDict((<<"t", "o", "p", "i", "c", "s">> :> PyList(<<PyDict((<<"t",
      "o", "p", "i", "c">> :> PyStr(<<"O", "h", "m", "'", "s", " ", "L", "a",
      "w">>)) @@ (<<"r", "e", "l", "e", "v", "a", "n", "c",
      "e">> :> PyNum([neg |-> FALSE, m |-> 9, k |-> -1])))>>)))]

BracesInStringPayload ==
    [text |->
      <<"{", "\"", "k", "\"", ":", " ", "\"", "}", "{", "\"", "}">>,
     value |->
      PyDict((<<"k">> :> PyStr(<<"}", "{">>)))]

PrettyPayload ==
    [text |->
      <<"{", "\n", " ", " ", "\"", "a", "\"", ":", " ", "{", "\"", "b", "\"",
      ":", " ", "n", "u", "l", "l", "}", ",", "\n", " ", " ", "\"", "c",
      "\"", ":", " ", "[", "t", "r", "u", "e", ",", " ", "-", "2", ".", "5",
      "0", "]", "\n", "}">>,
     value |->
      PyDict((<<"a">> :> PyDict((<<"b">> :> PyNone))) @@ (<<"c">> :> PyList(<<PyBool(TRUE), PyNum([neg |-> TRUE, m |-> 25, k |-> -1])>>)))]

Payloads == {EmptyPayload, SmallPayload, TopicsPayload, BracesInStringPayload, PrettyPayload}

ProseAlphabet == {"a", "\n", "{", "}"}

HereIsTheResult ==
    <<"H", "e", "r", "e", " ", "i", "s", " ", "t", "h", "e", " ", "r", "e",
    "s", "u", "l", "t", ":", "\n">>

LetMeKnow ==
    <<"\n", "L", "e", "t", " ", "m", "e", " ", "k", "n", "o", "w", " ", "i",
    "f", " ", "y", "o", "u", " ", "n", "e", "e", "d", " ", "m", "o", "r",
    "e", ".">>

UseBraces ==
    <<"U", "s", "e", " ", "{", "}", " ", "f", "o", "r", " ", "a", "n", " ",
    "e", "m", "p", "t", "y", " ", "r", "e", "s", "u", "l", "t", ".">>

StrayFence ==
    <<Backtick, Backtick, Backtick, "\n">>

InlineCode ==
    <<" ", "s", "e", "e", " ", Backtick, "x", Backtick, " ">>

Prose ==
    SeqsUpTo(ProseAlphabet, MaxProseLen)
        \cup {HereIsTheResult, LetMeKnow, UseBraces, StrayFence, InlineCode}

FenceTags == {<<>>, <<"j", "s", "o", "n">>}

\* before + ```tag + newline + payload + newline + ``` + after
Fenced(before, tag, payload, after) ==
    before \o Fence \o tag \o <<"\n">> \o payload \o <<"\n">> \o Fence \o after

FencedCalls ==
    {[fn |-> "_extract_json", kind |-> "fenced",
      text |-> PyStr(Fenced(b, tag, p.text, a)),
      before |-> b, after |-> a, payload |-> p.value] :
        b \in Prose, tag \in FenceTags, p \in Payloads, a \in Prose}

HelloWorld ==
    <<"h", "e", "l", "l", "o", " ", "w", "o", "r", "l", "d">>

NotJsonAtAll ==
    <<"n", "o", "t", " ", "j", "s", "o", "n", " ", "a", "t", " ", "a", "l",
    "l">>

Oops ==
    <<"{", "o", "o", "p", "s", "}">>

UnclosedFence ==
    <<Backtick, Backtick, Backtick, "j", "s", "o", "n", "\n", "n", "o", "t",
    " ", "j", "s", "o", "n">>

FreeAlphabet == {"a", "1", "{", "}", "[", "]", "\"", ":", ",", " ", "\n", Backtick}

FreeTexts == SeqsUpTo(FreeAlphabet, MaxFreeLen) \cup {HelloWorld, NotJsonAtAll, Oops, UnclosedFence}

FreeCalls ==
    {[fn |-> "_extract_json", kind |-> "free", text |-> PyStr(s)] : s \in FreeTexts}

InitParse ==
    /\ env = NoEnv
    /\ call \in FencedCalls \cup FreeCalls
    /\ adapter = NoAdapter
    /\ requests = <<>>
    /\ ret = Pending
    /\ sleeps = <<>>
    /\ uploads = {}

ExtractJson ==
    /\ call.fn = "_extract_json"
    /\ ret = Pending
    /\ ret' = _extract_json(call.text)
    /\ UNCHANGED <<env, call, adapter, requests, sleeps, uploads>>

NextParse == ExtractJson

SpecParse == InitParse /\ [][NextParse]_vars

Parsed == call.fn = "_extract_json" /\ ret # Pending

Contains(s, c) == \E i \in 1..Len(s) : s[i] = c

(***************************************************************************)
(* C9, as claimed: a JSON object in a fenced block is recovered exactly,   *)
(* whatever prose stands before and after the block.                       *)
(***************************************************************************)
C9_FencedPayloadRecovered ==
    (Parsed /\ call.kind = "fenced") => ret = Return(call.payload)

(***************************************************************************)
(* C9, amended: a JSON object in a fenced block is recovered exactly when  *)
(* the prose before the block holds no "{" and the prose after it no "}".  *)
(***************************************************************************)
C9_FencedPayloadRecoveredNoBraces ==
    (/\ Parsed
     /\ call.kind = "fenced"
     /\ ~Contains(call.before, "{")
     /\ ~Contains(call.after, "}"))
        => ret = Return(call.payload)

\* a non-empty payload recovered from between two pieces of prose
C9_Witness ==
    /\ Parsed
    /\ call.kind = "fenced"
    /\ call.before = HereIsTheResult
    /\ call.after = LetMeKnow
    /\ call.payload = TopicsPayload.value
    /\ ret = Return(call.payload)

\* every stage of _extract_json fails on the text: the fence-stripped text,
\* the region from the first "{" to the last "}", and the text itself
NoParseableData(text) ==
    /\ ~json_loads(CleanedText(text)).ok
    /\ BraceMatch(CleanedText(text)).found
          => ~json_loads(BraceMatch(CleanedText(text)).group).ok
    /\ ~json_loads(text).ok

(***************************************************************************)
(* C10: for a text with no parseable structured data, _extract_json        *)
(* returns the empty mapping and does not raise.                           *)
(***************************************************************************)
C10_UnparseableGivesEmpty ==
    (Parsed /\ call.text.t = "str" /\ NoParseableData(call.text.v))
        => ret = Return(PyDict(EmptyDict))

\* "hello world" has been parsed to the empty mapping
C10_Witness ==
    /\ Parsed
    /\ call.text = PyStr(HelloWorld)
    /\ NoParseableData(call.text.v)
    /\ ret = Return(PyDict(EmptyDict))

(***************************************************************************)
(* Module configuration (src/ai_utils.py 16-61): for each backend whether  *)
(* its library imported and what the environment holds as its API key      *)
(* (unset, empty or set).  It is fixed when the module is imported.        *)
(***************************************************************************)
ApiKeys == {PyNone, PyStr(<<>>), PyStr(<<"k">>)}

Environments ==
    [GROQ_AVAILABLE : BOOLEAN, GROQ_API_KEY : ApiKeys,
     GEMINI_AVAILABLE : BOOLEAN, GEMINI_API_KEY : ApiKeys,
     OPENAI_AVAILABLE : BOOLEAN, OPENAI_API_KEY : ApiKeys]

GroqName == <<"g", "r", "o", "q">>
GeminiName == <<"g", "e", "m", "i", "n", "i">>
OpenAIName == <<"o", "p", "e", "n", "a", "i">>
BasicName == <<"b", "a", "s", "i", "c">>

\* `GROQ_AVAILABLE and GROQ_API_KEY`, and likewise for the other backends
GroqUsable == env.GROQ_AVAILABLE /\ ~Falsy(env.GROQ_API_KEY)
GeminiUsable == env.GEMINI_AVAILABLE /\ ~Falsy(env.GEMINI_API_KEY)
OpenAIUsable == env.OPENAI_AVAILABLE /\ ~Falsy(env.OPENAI_API_KEY)

DefaultProviderNeverBasic ==
    IF GroqUsable THEN GroqName
    ELSE IF GeminiUsable THEN GeminiName
    ELSE OpenAIName

DefaultProviderGeminiFirst ==
    IF GeminiUsable THEN GeminiName
    ELSE IF GroqUsable THEN GroqName
    ELSE IF OpenAIUsable THEN OpenAIName
    ELSE BasicName

\* lines 58-61
DEFAULT_PROVIDER ==
    IF GroqUsable THEN GroqName
    ELSE IF GeminiUsable THEN GeminiName
    ELSE IF OpenAIUsable THEN OpenAIName
    ELSE BasicName

AvailableProvidersBasicFirst ==
    <<BasicName>>
        \o (IF GroqUsable THEN <<GroqName>> ELSE <<>>)
        \o (IF GeminiUsable THEN <<GeminiName>> ELSE <<>>)
        \o (IF OpenAIUsable THEN <<OpenAIName>> ELSE <<>>)

\* lines 467-477
get_available_providers ==
    (IF GroqUsable THEN <<GroqName>> ELSE <<>>)
        \o (IF GeminiUsable THEN <<GeminiName>> ELSE <<>>)
        \o (IF OpenAIUsable THEN <<OpenAIName>> ELSE <<>>)
        \o <<BasicName>>

\* lines 480-488: `X_AVAILABLE and bool(X_API_KEY)` is False for a missing
\* library and the truth value of the key otherwise
get_ai_status ==
    [groq_available |-> env.GROQ_AVAILABLE /\ ~Falsy(env.GROQ_API_KEY),
     gemini_available |-> env.GEMINI_AVAILABLE /\ ~Falsy(env.GEMINI_API_KEY),
     openai_available |-> env.OPENAI_AVAILABLE /\ ~Falsy(env.OPENAI_API_KEY),
     default_provider |-> DEFAULT_PROVIDER,
     available_providers |-> get_available_providers]

(***************************************************************************)
(* Exceptions: the classes the handlers tell apart, and str(e).            *)
(***************************************************************************)
\* the base classes of an exception class, itself included
Bases(cls) ==
    {cls, "Exception"} \cup
    (CASE cls = "JSONDecodeError" -> {"ValueError"}
       [] cls = "RecursionError" -> {"RuntimeError"}
       [] cls = "IndexError" -> {"LookupError"}
       [] OTHER -> {})

IsInstance(e, cls) == cls \in Bases(e.cls)

Reraise(e) == [ok |-> FALSE, exc |-> e]

UpperCase ==
    <<"A", "B", "C", "D", "E", "F", "G", "H", "I", "J", "K", "L", "M",
      "N", "O", "P", "Q", "R", "S", "T", "U", "V", "W", "X", "Y", "Z">>

LowerCase ==
    <<"a", "b", "c", "d", "e", "f", "g", "h", "i", "j", "k", "l", "m",
      "n", "o", "p", "q", "r", "s", "t", "u", "v", "w", "x", "y", "z">>

\* str.lower()
Lower(s) ==
    [i \in 1..Len(s) |->
        IF \E k \in 1..26 : UpperCase[k] = s[i]
        THEN LowerCase[CHOOSE k \in 1..26 : UpperCase[k] = s[i]]
        ELSE s[i]]

\* `sub in s`
ContainsSub(s, sub) ==
    \E i \in 1..(Len(s) - Len(sub) + 1) : SubSeq(s, i, i + Len(sub) - 1) = sub

GroqNotAvailable ==
    <<"G", "r", "o", "q", " ", "n", "o", "t", " ", "a", "v", "a", "i", "l",
    "a", "b", "l", "e">>

GeminiNotAvailable ==
    <<"G", "e", "m", "i", "n", "i", " ", "n", "o", "t", " ", "a", "v", "a",
    "i", "l", "a", "b", "l", "e">>

OpenAINotAvailable ==
    <<"O", "p", "e", "n", "A", "I", " ", "n", "o", "t", " ", "a", "v", "a",
    "i", "l", "a", "b", "l", "e">>

ContentBlockedPrefix ==
    <<"C", "o", "n", "t", "e", "n", "t", " ", "b", "l", "o", "c", "k", "e",
    "d", " ", "b", "y", " ", "s", "a", "f", "e", "t", "y", " ", "f", "i",
    "l", "t", "e", "r", ":", " ">>

SafetyFilter ==
    <<"s", "a", "f", "e", "t", "y", " ", "f", "i", "l", "t", "e", "r">>

FinishReason ==
    <<"f", "i", "n", "i", "s", "h", "_", "r", "e", "a", "s", "o", "n">>

(***************************************************************************)
(* What a backend does with a request is the environment's choice: it      *)
(* replies with a text (or with no content), the request raises, or        *)
(* reading the text of the response raises.                                *)
(***************************************************************************)
ChaptersReply ==
    <<"{", "\"", "c", "h", "a", "p", "t", "e", "r", "s", "\"", ":", " ", "[",
    "{", "\"", "n", "a", "m", "e", "\"", ":", " ", "\"", "P", "h", "y", "s",
    "i", "c", "s", "\"", ",", " ", "\"", "c", "o", "n", "f", "i", "d", "e",
    "n", "c", "e", "\"", ":", " ", "0", ".", "4", "5", "}", ",", " ", "{",
    "\"", "n", "a", "m", "e", "\"", ":", " ", "\"", "C", "h", "e", "m", "i",
    "s", "t", "r", "y", "\"", ",", " ", "\"", "c", "o", "n", "f", "i", "d",
    "e", "n", "c", "e", "\"", ":", " ", "0", ".", "3", "5", "}", "]", ",",
    " ", "\"", "p", "r", "i", "m", "a", "r", "y", "_", "s", "u", "b", "j",
    "e", "c", "t", "\"", ":", " ", "\"", "P", "h", "y", "s", "i", "c", "s",
    "\"", "}">>

TopicsReply ==
    <<"{", "\"", "t", "o", "p", "i", "c", "s", "\"", ":", " ", "[", "{",
    "\"", "t", "o", "p", "i", "c", "\"", ":", " ", "\"", "O", "h", "m", "'",
    "s", " ", "L", "a", "w", "\"", ",", " ", "\"", "r", "e", "l", "e", "v",
    "a", "n", "c", "e", "\"", ":", " ", "0", ".", "9", "}", ",", " ", "{",
    "\"", "t", "o", "p", "i", "c", "\"", ":", " ", "\"", "\"", "}", "]",
    "}">>

ListReply ==
    <<"[", "1", ",", " ", "2", "]">>

Replies ==
    {PyNone, PyStr(HelloWorld), PyStr(ListReply),
     PyStr(Fenced(<<>>, <<"j", "s", "o", "n">>, ChaptersReply, <<>>)),
     PyStr(Fenced(HereIsTheResult, <<>>, TopicsReply, LetMeKnow))}

ConnectionErrorMessage ==
    <<"C", "o", "n", "n", "e", "c", "t", "i", "o", "n", " ", "e", "r", "r",
    "o", "r", ".">>

InvalidKeyMessage ==
    <<"I", "n", "v", "a", "l", "i", "d", " ", "A", "P", "I", " ", "K", "e",
    "y">>

ClientClosedMessage ==
    <<"c", "l", "i", "e", "n", "t", " ", "h", "a", "s", " ", "b", "e", "e",
    "n", " ", "c", "l", "o", "s", "e", "d">>

BlockedResponseMessage ==
    <<"n", "o", " ", "v", "a", "l", "i", "d", " ", "P", "a", "r", "t", ":",
    " ", "f", "i", "n", "i", "s", "h", "_", "r", "e", "a", "s", "o", "n",
    " ", "i", "s", " ", "S", "A", "F", "E", "T", "Y">>

EmptyResponseMessage ==
    <<"n", "o", " ", "c", "a", "n", "d", "i", "d", "a", "t", "e", "s", " ",
    "r", "e", "t", "u", "r", "n", "e", "d">>

\* errors of the client library while the request is made: the network is
\* down, the key is refused, or an unexpected failure inside the library
RequestErrors ==
    {[cls |-> "APIConnectionError", msg |-> ConnectionErrorMessage],
     [cls |-> "AuthenticationError", msg |-> InvalidKeyMessage],
     [cls |-> "RuntimeError", msg |-> ClientClosedMessage]}

\* errors of reading the text of a response that holds none: Gemini's
\* accessor raises ValueError, naming the finish_reason when the candidate
\* was stopped by the content policy; an empty choices list raises IndexError
ReadErrors ==
    {[cls |-> "ValueError", msg |-> BlockedResponseMessage],
     [cls |-> "ValueError", msg |-> EmptyResponseMessage],
     [cls |-> "IndexError", msg |-> <<>>]}

Outcomes ==
    {[kind |-> "reply", text |-> r] : r \in Replies}
        \cup {[kind |-> "request_error", exc |-> e] : e \in RequestErrors}
        \cup {[kind |-> "read_error", exc |-> e] : e \in ReadErrors}

\* the backend refused to generate because of its content policy
ContentBlocked(outcome) ==
    /\ outcome.kind = "read_error"
    /\ outcome.exc.cls = "ValueError"
    /\ ContainsSub(outcome.exc.msg, FinishReason)

(***************************************************************************)
(* Provider adapters (src/ai_utils.py 309-384).  An adapter gives          *)
(* [result, requests]: what it returns or raises, and the requests it      *)
(* sent to its backend.                                                    *)
(***************************************************************************)
Request(provider, prompt, system_prompt) ==
    [provider |-> provider, prompt |-> prompt, system_prompt |-> system_prompt]

\* groq_client.chat.completions.create(...) and .choices[0].message.content
PlainCompletion(outcome) ==
    IF outcome.kind = "reply" THEN Return(outcome.text) ELSE Reraise(outcome.exc)

_call_groq(prompt, system_prompt, outcome) ==
    IF ~env.GROQ_AVAILABLE \/ Falsy(env.GROQ_API_KEY)
    THEN [result |-> Raise("RuntimeError", GroqNotAvailable), requests |-> <<>>]
    ELSE [result |-> PlainCompletion(outcome),
          requests |-> <<Request(GroqName, prompt, system_prompt)>>]

BlockedAsValueError(e) == Reraise(e)

\* lines 360-364: a ValueError of response.text that names finish_reason
\* becomes RuntimeError("Content blocked by safety filter: ...")
TranslateTextError(e) ==
    IF IsInstance(e, "ValueError") /\ ContainsSub(e.msg, FinishReason)
    THEN Raise("RuntimeError", ContentBlockedPrefix \o e.msg)
    ELSE Reraise(e)

_call_gemini(prompt, system_prompt, outcome) ==
    IF ~env.GEMINI_AVAILABLE \/ Falsy(env.GEMINI_API_KEY)
    THEN [result |-> Raise("RuntimeError", GeminiNotAvailable), requests |-> <<>>]
    ELSE [result |->
            IF outcome.kind = "reply" THEN Return(outcome.text)
            ELSE IF outcome.kind = "request_error" THEN Reraise(outcome.exc)
            ELSE TranslateTextError(outcome.exc),
          requests |-> <<Request(GeminiName, prompt, system_prompt)>>]

_call_openai(prompt, system_prompt, outcome) ==
    IF ~env.OPENAI_AVAILABLE \/ Falsy(env.OPENAI_API_KEY)
    THEN [result |-> Raise("RuntimeError", OpenAINotAvailable), requests |-> <<>>]
    ELSE [result |-> PlainCompletion(outcome),
          requests |-> <<Request(OpenAIName, prompt, system_prompt)>>]

(***************************************************************************)
(* Normalisation of a parsed reply (src/ai_utils.py 196-204, 242-249).     *)
(* A mapping decoded from JSON is keyed by the character sequences of its  *)
(* keys; the chapter and topic mappings built here are keyed by the Python *)
(* values of the names, which need not be strings.                         *)
(***************************************************************************)
Unknown ==
    <<"U", "n", "k", "n", "o", "w", "n">>

ChaptersKey ==
    <<"c", "h", "a", "p", "t", "e", "r", "s">>

NameKey ==
    <<"n", "a", "m", "e">>

ConfidenceKey ==
    <<"c", "o", "n", "f", "i", "d", "e", "n", "c", "e">>

PrimarySubjectKey ==
    <<"p", "r", "i", "m", "a", "r", "y", "_", "s", "u", "b", "j", "e", "c",
    "t">>

TopicsKey ==
    <<"t", "o", "p", "i", "c", "s">>

TopicKey ==
    <<"t", "o", "p", "i", "c">>

RelevanceKey ==
    <<"r", "e", "l", "e", "v", "a", "n", "c", "e">>

\* the default score 0.5
Half == PyNum([neg |-> FALSE, m |-> 5, k |-> -1])

\* d.get(key, default) on a decoded mapping
DictGet(d, key, default) == IF key \in DOMAIN d.v THEN d.v[key] ELSE default

RECURSIVE SetToSeq(_)
SetToSeq(S) ==
    IF S = {} THEN <<>>
    ELSE LET x == CHOOSE y \in S : TRUE IN <<x>> \o SetToSeq(S \ {x})

\* what `for x in v` runs over, or the TypeError of a value not iterable
IterItems(v) ==
    CASE v.t = "list" -> Return(v.v)
      [] v.t = "dict" -> Return([i \in 1..Cardinality(DOMAIN v.v) |->
                                    PyStr(SetToSeq(DOMAIN v.v)[i])])
      [] v.t = "str" -> Return([i \in 1..Len(v.v) |-> PyStr(<<v.v[i]>>)])
      [] OTHER -> Raise("TypeError", <<>>)

\* a list or a dict cannot be a dictionary key
Hashable(v) == v.t \notin {"list", "dict"}

\* True and 1, False and 0 are the same dictionary key
KeyOf(v) ==
    IF v.t = "bool"
    THEN PyNum([neg |-> FALSE, m |-> IF v.v THEN 1 ELSE 0, k |-> 0])
    ELSE v

\* truth value of a decoded value
IsTrue(v) ==
    CASE v.t = "None" -> FALSE
      [] v.t = "bool" -> v.v
      [] v.t = "num" -> v.v.m # 0
      [] v.t = "str" -> v.v # <<>>
      [] v.t = "list" -> v.v # <<>>
      [] v.t = "dict" -> DOMAIN v.v # {}
      [] OTHER -> TRUE

\* a score cut to [0, 1]
Clamped(c) ==
    IF c.t # "num" THEN c
    ELSE IF c.v.neg THEN PyNum([neg |-> FALSE, m |-> 0, k |-> 0])
    ELSE IF c.v.m * Pow10(c.v.k) > Pow10(0 - c.v.k)
         THEN PyNum([neg |-> FALSE, m |-> 1, k |-> 0])
    ELSE c

RECURSIVE CollectChaptersClamped(_, _)
CollectChaptersClamped(items, acc) ==
    IF items = <<>> THEN Return(PyDict(acc))
    ELSE
      LET ch == Head(items)
      IN  IF ch.t # "dict" THEN Raise("AttributeError", <<>>)
          ELSE
            LET name == DictGet(ch, NameKey, PyStr(Unknown))
                confidence == Clamped(DictGet(ch, ConfidenceKey, Half))
            IN  IF ~Hashable(name) THEN Raise("TypeError", <<>>)
                ELSE CollectChaptersClamped(Tail(items),
                                            DictSet(acc, KeyOf(name), confidence))

\* lines 197-199
RECURSIVE CollectChapters(_, _)
CollectChapters(items, acc) ==
    IF items = <<>> THEN Return(PyDict(acc))
    ELSE
      LET ch == Head(items)
      IN  IF ch.t # "dict" THEN Raise("AttributeError", <<>>)
          ELSE
            LET name == DictGet(ch, NameKey, PyStr(Unknown))
                confidence == DictGet(ch, ConfidenceKey, Half)
            IN  IF ~Hashable(name) THEN Raise("TypeError", <<>>)
                ELSE CollectChapters(Tail(items), DictSet(acc, KeyOf(name), confidence))

RECURSIVE CollectTopicsKeepEmpty(_, _)
CollectTopicsKeepEmpty(items, acc) ==
    IF items = <<>> THEN Return(PyDict(acc))
    ELSE
      LET item == Head(items)
      IN  IF item.t # "dict" THEN Raise("AttributeError", <<>>)
          ELSE
            LET topic == DictGet(item, TopicKey, PyStr(<<>>))
                relevance == DictGet(item, RelevanceKey, Half)
            IN  IF ~Hashable(topic) THEN Raise("TypeError", <<>>)
                ELSE CollectTopicsKeepEmpty(Tail(items),
                                            DictSet(acc, KeyOf(topic), relevance))

\* lines 243-247
RECURSIVE CollectTopics(_, _)
CollectTopics(items, acc) ==
    IF items = <<>> THEN Return(PyDict(acc))
    ELSE
      LET item == Head(items)
      IN  IF item.t # "dict" THEN Raise("AttributeError", <<>>)
          ELSE
            LET topic == DictGet(item, TopicKey, PyStr(<<>>))
                relevance == DictGet(item, RelevanceKey, Half)
            IN  IF ~IsTrue(topic) THEN CollectTopics(Tail(items), acc)
                ELSE IF ~Hashable(topic) THEN Raise("TypeError", <<>>)
                ELSE CollectTopics(Tail(items), DictSet(acc, KeyOf(topic), relevance))

\* the mapping analyze_chapters_ai returns
ChaptersResult(chapters, primary_subject) ==
    [chapters |-> chapters, primary_subject |-> primary_subject]

\* {"chapters": {}, "primary_subject": "Unknown"}
EmptyChapters == ChaptersResult(PyDict(EmptyDict), PyStr(Unknown))

\* {}
EmptyTopics == PyDict(EmptyDict)

\* lines 194-204
NormaliseChapters(data) ==
    IF data.t # "dict" THEN Raise("AttributeError", <<>>)       \* data.get
    ELSE
      LET items == IterItems(DictGet(data, ChaptersKey, PyList(<<>>)))
          chapters == CollectChapters(items.val, EmptyDict)
      IN  IF ~items.ok THEN items
          ELSE IF ~chapters.ok THEN chapters
          ELSE Return(ChaptersResult(chapters.val,
                         DictGet(data, PrimarySubjectKey, PyStr(Unknown))))

\* lines 240-249
NormaliseTopics(data) ==
    IF data.t # "dict" THEN Raise("AttributeError", <<>>)       \* data.get
    ELSE
      LET items == IterItems(DictGet(data, TopicsKey, PyList(<<>>)))
      IN  IF ~items.ok THEN items ELSE CollectTopics(items.val, EmptyDict)

(***************************************************************************)
(* analyze_chapters_ai and extract_topics_ai (src/ai_utils.py 165-260).    *)
(* Each gives [ret, adapter, requests]: what the call returns or raises,   *)
(* what the adapter it called returned or raised, and the requests sent.   *)
(***************************************************************************)
\* `"safety filter" in str(e).lower()`
IsSafetyFilter(e) == ContainsSub(Lower(e.msg), SafetyFilter)

\* lines 206-215 and 251-260: `except RuntimeError` returns the empty result
\* for a safety-filter error and re-raises any other; `except Exception`
\* returns the empty result.  A re-raise leaves the try statement: the
\* second handler does not see it.
HandleError(e, empty) ==
    IF IsInstance(e, "RuntimeError")
    THEN IF IsSafetyFilter(e) THEN Return(empty) ELSE Reraise(e)
    ELSE Return(empty)

\* `provider or DEFAULT_PROVIDER`
ResolveProvider(provider) == IF Falsy(provider) THEN DEFAULT_PROVIDER ELSE provider.v

IsAdapter(name) == name \in {GroqName, GeminiName, OpenAIName}

\* what an adapter gives when it sends its request once more after a failure
Retried(a, outcome) ==
    [result |-> a.result,
     requests |-> IF outcome.kind = "reply" THEN a.requests ELSE a.requests \o a.requests]

DispatchWithRetry(name, prompt, system_prompt, outcome) ==
    IF name = GroqName THEN Retried(_call_groq(prompt, system_prompt, outcome), outcome)
    ELSE IF name = GeminiName
    THEN Retried(_call_gemini(prompt, system_prompt, outcome), outcome)
    ELSE Retried(_call_openai(prompt, system_prompt, outcome), outcome)

\* lines 184-189 and 231-236, for a name that has an adapter
Dispatch(name, prompt, system_prompt, outcome) ==
    IF name = GroqName THEN _call_groq(prompt, system_prompt, outcome)
    ELSE IF name = GeminiName THEN _call_gemini(prompt, system_prompt, outcome)
    ELSE _call_openai(prompt, system_prompt, outcome)

Called(name, a) == [called |-> TRUE, provider |-> name, result |-> a.result]

\* the try body after `data = _extract_json(result)`: the normalisation runs
\* unless the parse raised
ChaptersFromData(data) == IF data.ok THEN NormaliseChapters(data.val) ELSE data

TopicsFromData(data) == IF data.ok THEN NormaliseTopics(data.val) ELSE data

\* the try body after `result = _call_X(...)`: parse and normalisation run
\* unless the adapter raised
ChaptersFromResult(result) ==
    IF result.ok THEN ChaptersFromData(_extract_json(result.val)) ELSE result

TopicsFromResult(result) ==
    IF result.ok THEN TopicsFromData(_extract_json(result.val)) ELSE result

\* the try statement: its body's value, or what the handlers make of the
\* exception the body raised
Try(body, empty) == IF body.ok THEN body ELSE HandleError(body.exc, empty)

analyze_chapters_ai(text, provider, sample_size, outcome) ==
    LET name == ResolveProvider(provider)
        text_sample == _sample_text(text, sample_size)
        prompt == [template |-> "CHAPTER_ANALYSIS_PROMPT", text |-> text_sample.val]
        a == Dispatch(name, prompt, <<>>, outcome)
    IN  IF ~text_sample.ok
        THEN [ret |-> text_sample, adapter |-> NoAdapter, requests |-> <<>>]
        ELSE IF ~IsAdapter(name)
        THEN [ret |-> Return(EmptyChapters), adapter |-> NoAdapter, requests |-> <<>>]
        ELSE [ret |-> Try(ChaptersFromResult(a.result), EmptyChapters),
              adapter |-> Called(name, a),
              requests |-> a.requests]

extract_topics_ai(text, provider, sample_size, outcome) ==
    LET name == ResolveProvider(provider)
        text_sample == _sample_text(text, sample_size)
        prompt == [template |-> "TOPIC_EXTRACTION_PROMPT", text |-> text_sample.val]
        a == Dispatch(name, prompt, <<>>, outcome)
    IN  IF ~text_sample.ok
        THEN [ret |-> text_sample, adapter |-> NoAdapter, requests |-> <<>>]
        ELSE IF ~IsAdapter(name)
        THEN [ret |-> Return(EmptyTopics), adapter |-> NoAdapter, requests |-> <<>>]
        ELSE [ret |-> Try(TopicsFromResult(a.result), EmptyTopics),
              adapter |-> Called(name, a),
              requests |-> a.requests]

(***************************************************************************)
(* The module in use: it is imported under some configuration, and its     *)
(* caller then makes one classification call after the other.              *)
(***************************************************************************)
\* longest document text given to a classification call
MaxDocLen == 12

\* default sample_size of analyze_chapters_ai and of extract_topics_ai
ChapterSampleSize == 12000
TopicSampleSize == 6000

\* a sample_size below the length of the longest document
SmallSampleSize == 9

ClaudeName ==
    <<"c", "l", "a", "u", "d", "e">>

DocTexts == {PyNone, PyStr(<<>>), PyStr(PosText(2)), PyStr(PosText(MaxDocLen))}

ProviderArgs ==
    {PyNone, PyStr(<<>>), PyStr(GroqName), PyStr(GeminiName), PyStr(OpenAIName),
     PyStr(BasicName), PyStr(ClaudeName)}

NoCall == [fn |-> "none"]

Init ==
    /\ env \in Environments
    /\ call = NoCall
    /\ adapter = NoAdapter
    /\ requests = <<>>
    /\ ret = Pending
    /\ sleeps = <<>>
    /\ uploads = {}

\* the call ends with result r
Completes(r) ==
    /\ ret' = r.ret
    /\ adapter' = r.adapter
    /\ requests' = r.requests

AnalyzeChaptersAi ==
    /\ ret = Pending
    /\ \E text \in DocTexts, provider \in ProviderArgs,
          sample_size \in {SmallSampleSize, ChapterSampleSize}, outcome \in Outcomes :
          /\ call' = [fn |-> "analyze_chapters_ai", text |-> text,
                      provider |-> provider, sample_size |-> sample_size,
                      outcome |-> outcome]
          /\ Completes(analyze_chapters_ai(text, provider, sample_size, outcome))
    /\ UNCHANGED <<env, sleeps, uploads>>

ExtractTopicsAi ==
    /\ ret = Pending
    /\ \E text \in DocTexts, provider \in ProviderArgs,
          sample_size \in {SmallSampleSize, TopicSampleSize}, outcome \in Outcomes :
          /\ call' = [fn |-> "extract_topics_ai", text |-> text,
                      provider |-> provider, sample_size |-> sample_size,
                      outcome |-> outcome]
          /\ Completes(extract_topics_ai(text, provider, sample_size, outcome))
    /\ UNCHANGED <<env, sleeps, uploads>>

\* get_ai_status() reads the configuration and calls no adapter
GetAiStatus ==
    /\ ret = Pending
    /\ call' = [fn |-> "get_ai_status"]
    /\ ret' = Return(get_ai_status)
    /\ UNCHANGED <<env, adapter, requests, sleeps, uploads>>

\* the caller takes the result; the next call may follow
ReturnToCaller ==
    /\ ret # Pending
    /\ call' = NoCall
    /\ adapter' = NoAdapter
    /\ requests' = <<>>
    /\ ret' = Pending
    /\ sleeps' = <<>>
    /\ UNCHANGED <<env, uploads>>

Next == AnalyzeChaptersAi \/ ExtractTopicsAi \/ GetAiStatus \/ ReturnToCaller

Spec == Init /\ [][Next]_vars

(***************************************************************************)
(* The finished call, as the claims below look at it.                      *)
(***************************************************************************)
\* a classification call has ended and its caller has not yet taken the result
CallDone == call.fn \in {"analyze_chapters_ai", "extract_topics_ai"}

\* the empty result of the function that was called
EmptyResult == IF call.fn = "analyze_chapters_ai" THEN EmptyChapters ELSE EmptyTopics

\* the adapter refused before any request: library or credentials missing
ProviderUnavailable ==
    /\ adapter.called
    /\ requests = <<>>
    /\ ~adapter.result.ok
    /\ adapter.result.exc.cls = "RuntimeError"
    /\ adapter.result.exc.msg \in
           {GroqNotAvailable, GeminiNotAvailable, OpenAINotAvailable}

\* the adapter sent its request and raised: the request failed, or the
\* response held no text
RemoteFailure ==
    /\ adapter.called
    /\ requests # <<>>
    /\ ~adapter.result.ok

\* the error carries the mark the orchestrators look for
MarkedContentBlocked(e) == IsInstance(e, "RuntimeError") /\ IsSafetyFilter(e)

(***************************************************************************)
(* C1, as claimed: when the selected adapter fails because its credentials *)
(* or its library are missing, analyze_chapters_ai returns                 *)
(* {"chapters": {}, "primary_subject": "Unknown"} and extract_topics_ai    *)
(* returns {} instead of raising.  The code re-raises that RuntimeError.   *)
(***************************************************************************)
C1_UnavailableGivesEmpty ==
    (CallDone /\ ProviderUnavailable) => ret = Return(EmptyResult)

(***************************************************************************)
(* C2, as claimed: when the adapter raises on a remote, transient or       *)
(* unexpected failure, analyze_chapters_ai and extract_topics_ai propagate *)
(* no exception and return their empty result.  The code re-raises every   *)
(* RuntimeError that does not mention the safety filter.                   *)
(***************************************************************************)
C2_RemoteFailureGivesEmpty ==
    (CallDone /\ RemoteFailure) =>
        (ret.ok /\ ret = Return(EmptyResult))

NoCredentials ==
    /\ Falsy(env.GROQ_API_KEY)
    /\ Falsy(env.GEMINI_API_KEY)
    /\ Falsy(env.OPENAI_API_KEY)

C4_BasicShortCircuits ==
    /\ NoCredentials => DEFAULT_PROVIDER = BasicName
    /\ (CallDone /\ ResolveProvider(call.provider) = BasicName)
         => /\ ret = Return(EmptyResult)
            /\ adapter = NoAdapter
            /\ requests = <<>>

C4_Witness ==
    /\ CallDone
    /\ NoCredentials
    /\ env.GROQ_AVAILABLE /\ env.GEMINI_AVAILABLE /\ env.OPENAI_AVAILABLE
    /\ call.provider = PyNone
    /\ ResolveProvider(call.provider) = BasicName
    /\ call.text = PyStr(PosText(MaxDocLen))
    /\ ret = Return(EmptyResult)
    /\ requests = <<>>

(***************************************************************************)
(* C11, as claimed: for every string the value _extract_json returns is a  *)
(* mapping; a reply that is valid JSON but not an object (a number, a      *)
(* string, a list) does not make it return something else.  The code       *)
(* returns whatever json.loads decoded.                                    *)
(***************************************************************************)
C11_ParserReturnsMapping ==
    (Parsed /\ call.text.t = "str") => (ret.ok /\ ret.val.t = "dict")

(***************************************************************************)
(* C12: DEFAULT_PROVIDER is decided by the three usable flags alone, with  *)
(* the fixed priority groq, gemini, openai, basic: a usable backend is     *)
(* never passed over for one of lower priority, "basic" is chosen only     *)
(* when none is usable, and a call that names no provider goes to the      *)
(* adapter so chosen.                                                      *)
(***************************************************************************)
\* the usable flags of a configuration
UsableFlags(e) ==
    <<e.GROQ_AVAILABLE /\ ~Falsy(e.GROQ_API_KEY),
      e.GEMINI_AVAILABLE /\ ~Falsy(e.GEMINI_API_KEY),
      e.OPENAI_AVAILABLE /\ ~Falsy(e.OPENAI_API_KEY)>>

\* the provider the priority order gives for usable flags f
ByPriority(f) ==
    CHOOSE name \in {GroqName, GeminiName, OpenAIName, BasicName} :
        /\ name = GroqName => f[1]
        /\ name = GeminiName => (f[2] /\ ~f[1])
        /\ name = OpenAIName => (f[3] /\ ~f[1] /\ ~f[2])
        /\ name = BasicName => (~f[1] /\ ~f[2] /\ ~f[3])

C12_FixedPriority ==
    /\ DEFAULT_PROVIDER = ByPriority(UsableFlags(env))
    /\ DEFAULT_PROVIDER = BasicName
         <=> (~GroqUsable /\ ~GeminiUsable /\ ~OpenAIUsable)
    /\ (CallDone /\ Falsy(call.provider) /\ adapter.called)
         => adapter.provider = ByPriority(UsableFlags(env))
    /\ (CallDone /\ Falsy(call.provider) /\ ~adapter.called)
         => ByPriority(UsableFlags(env)) = BasicName

\* Groq is not usable, Gemini and OpenAI both are: the call went to Gemini
C12_Witness ==
    /\ CallDone
    /\ call.provider = PyNone
    /\ UsableFlags(env) = <<FALSE, TRUE, TRUE>>
    /\ env.GROQ_AVAILABLE
    /\ DEFAULT_PROVIDER = GeminiName
    /\ adapter.called
    /\ adapter.provider = GeminiName
    /\ adapter.result.ok

(***************************************************************************)
(* C13: for every configuration the list get_ai_status() reports is in     *)
(* priority order (groq, gemini, openai), has "basic" as its last element  *)
(* and nowhere else, holds a backend exactly when the availability flag of *)
(* the same snapshot is true, and starts with the reported                 *)
(* default_provider.                                                       *)
(***************************************************************************)
StatusDone == call.fn = "get_ai_status" /\ ret # Pending

\* position of a provider in the priority order
Rank(name) ==
    CASE name = GroqName -> 1
      [] name = GeminiName -> 2
      [] name = OpenAIName -> 3
      [] name = BasicName -> 4
      [] OTHER -> 0

Listed(providers, name) == \E i \in 1..Len(providers) : providers[i] = name

C13_StatusListOrdered ==
    StatusDone =>
        /\ ret.ok
        /\ LET status == ret.val
               providers == status.available_providers
           IN  /\ Len(providers) >= 1
               /\ providers[Len(providers)] = BasicName
               /\ \A i \in 1..Len(providers) : Rank(providers[i]) >= 1
               /\ \A i, j \in 1..Len(providers) :
                      i < j => Rank(providers[i]) < Rank(providers[j])
               /\ Listed(providers, GroqName) <=> status.groq_available
               /\ Listed(providers, GeminiName) <=> status.gemini_available
               /\ Listed(providers, OpenAIName) <=> status.openai_available
               /\ providers[1] = status.default_provider

\* Groq has a key but no library, Gemini and OpenAI are usable
C13_Witness ==
    /\ StatusDone
    /\ ~env.GROQ_AVAILABLE /\ ~Falsy(env.GROQ_API_KEY)
    /\ ret.val.available_providers = <<GeminiName, OpenAIName, BasicName>>
    /\ ret.val.default_provider = GeminiName
    /\ ~ret.val.groq_available

(***************************************************************************)
(* Replies that hold structured data.  A reply is written from a           *)
(* description of its records: a field is absent, or present with a JSON   *)
(* literal (its text and the value the text stands for).  The reply text   *)
(* goes through the adapter, _extract_json and the normalisation like any  *)
(* other reply.                                                            *)
(***************************************************************************)
\* most records in the list of a reply
MaxRecords == 2

Absent == [has |-> FALSE]
Present(lit) == [has |-> TRUE, lit |-> lit]

Quoted(s) == <<"\"">> \o s \o <<"\"">>
StrLit(s) == [text |-> Quoted(s), value |-> PyStr(s)]
NumLit(text, neg, mant, exp) ==
    [text |-> text, value |-> PyNum([neg |-> neg, m |-> mant, k |-> exp])]

Physics ==
    <<"P", "h", "y", "s", "i", "c", "s">>

Chemistry ==
    <<"C", "h", "e", "m", "i", "s", "t", "r", "y">>

OhmsLaw ==
    <<"O", "h", "m", "'", "s", " ", "L", "a", "w">>

Kinetics ==
    <<"K", "i", "n", "e", "t", "i", "c", "s">>

\* confidences inside and outside [0, 1]
ConfidenceLits ==
    {NumLit(<<"0", ".", "4", "5">>, FALSE, 45, -2),
     NumLit(<<"1", ".", "7">>, FALSE, 17, -1),
     NumLit(<<"-", "3">>, TRUE, 3, 0)}

RelevanceLits ==
    {NumLit(<<"0", ".", "9">>, FALSE, 9, -1),
     NumLit(<<"1", ".", "7">>, FALSE, 17, -1)}

ChapterRecords ==
    [name : {Absent, Present(StrLit(Physics)), Present(StrLit(Chemistry))},
     confidence : {Absent} \cup {Present(l) : l \in ConfidenceLits}]

TopicRecords ==
    [topic : {Absent, Present(StrLit(<<>>)), Present(StrLit(OhmsLaw)),
              Present(StrLit(Kinetics))},
     relevance : {Absent} \cup {Present(l) : l \in RelevanceLits}]

\* "key": literal
MemberText(key, field) == Quoted(key) \o <<":", " ">> \o field.lit.text

RECURSIVE JoinComma(_)
JoinComma(parts) ==
    IF parts = <<>> THEN <<>>
    ELSE IF Len(parts) = 1 THEN parts[1]
    ELSE parts[1] \o <<",", " ">> \o JoinComma(Tail(parts))

ObjectText(members) == <<"{">> \o JoinComma(members) \o <<"}">>
ArrayText(items) == <<"[">> \o JoinComma(items) \o <<"]">>

OptMember(key, field) == IF field.has THEN <<MemberText(key, field)>> ELSE <<>>

ChapterRecordText(r) ==
    ObjectText(OptMember(NameKey, r.name) \o OptMember(ConfidenceKey, r.confidence))

TopicRecordText(r) ==
    ObjectText(OptMember(TopicKey, r.topic) \o OptMember(RelevanceKey, r.relevance))

\* {"chapters": [...], "primary_subject": ...}
ChaptersReplyText(records, primary) ==
    ObjectText(
        <<Quoted(ChaptersKey) \o <<":", " ">> \o
            ArrayText([i \in 1..Len(records) |-> ChapterRecordText(records[i])])>>
        \o OptMember(PrimarySubjectKey, primary))

\* {"topics": [...]}
TopicsReplyText(records) ==
    ObjectText(
        <<Quoted(TopicsKey) \o <<":", " ">> \o
            ArrayText([i \in 1..Len(records) |-> TopicRecordText(records[i])])>>)

\* the reply as the backend words it: bare, or in a ```json block
Wraps == {"bare", "fenced"}
Wrapped(wrap, text) ==
    IF wrap = "fenced" THEN Fenced(<<>>, <<"j", "s", "o", "n">>, text, <<>>) ELSE text

\* every backend is usable
AllUsable ==
    [GROQ_AVAILABLE |-> TRUE, GROQ_API_KEY |-> PyStr(<<"k">>),
     GEMINI_AVAILABLE |-> TRUE, GEMINI_API_KEY |-> PyStr(<<"k">>),
     OPENAI_AVAILABLE |-> TRUE, OPENAI_API_KEY |-> PyStr(<<"k">>)]

ReplyProviders == {PyNone, PyStr(GeminiName), PyStr(OpenAIName)}

InitReply ==
    /\ env = AllUsable
    /\ call = NoCall
    /\ adapter = NoAdapter
    /\ requests = <<>>
    /\ ret = Pending
    /\ sleeps = <<>>
    /\ uploads = {}

\* analyze_chapters_ai on a backend that replies with a list of chapter records
AnalyzeChaptersReply ==
    /\ ret = Pending
    /\ \E records \in SeqsUpTo(ChapterRecords, MaxRecords),
          primary \in {Absent, Present(StrLit(Physics))},
          wrap \in Wraps, provider \in ReplyProviders :
          LET reply == PyStr(Wrapped(wrap, ChaptersReplyText(records, primary)))
          IN  /\ call' = [fn |-> "analyze_chapters_ai", text |-> PyStr(PosText(2)),
                          provider |-> provider, sample_size |-> ChapterSampleSize,
                          outcome |-> [kind |-> "reply", text |-> reply],
                          records |-> records, primary |-> primary, wrap |-> wrap]
              /\ Completes(analyze_chapters_ai(PyStr(PosText(2)), provider,
                               ChapterSampleSize, [kind |-> "reply", text |-> reply]))
    /\ UNCHANGED <<env, sleeps, uploads>>

\* extract_topics_ai on a backend that replies with a list of topic records
ExtractTopicsReply ==
    /\ ret = Pending
    /\ \E records \in SeqsUpTo(TopicRecords, MaxRecords),
          wrap \in Wraps, provider \in ReplyProviders :
          LET reply == PyStr(Wrapped(wrap, TopicsReplyText(records)))
          IN  /\ call' = [fn |-> "extract_topics_ai", text |-> PyStr(PosText(2)),
                          provider |-> provider, sample_size |-> TopicSampleSize,
                          outcome |-> [kind |-> "reply", text |-> reply],
                          records |-> records, wrap |-> wrap]
              /\ Completes(extract_topics_ai(PyStr(PosText(2)), provider,
                               TopicSampleSize, [kind |-> "reply", text |-> reply]))
    /\ UNCHANGED <<env, sleeps, uploads>>

NextReply == AnalyzeChaptersReply \/ ExtractTopicsReply \/ ReturnToCaller

SpecReply == InitReply /\ [][NextReply]_vars

(***************************************************************************)
(* C14: for a reply whose "chapters" field is a list of records,           *)
(* analyze_chapters_ai returns a chapters mapping with one key per name    *)
(* of a record (a missing name is "Unknown"), each key carrying the        *)
(* confidence of the last record of that name exactly as it was written,   *)
(* out of [0, 1] or not (a missing confidence is 0.5), and a               *)
(* primary_subject equal to the reply's value, "Unknown" when absent.      *)
(***************************************************************************)
OrElse(field, default) == IF field.has THEN field.lit.value ELSE default

ChapterNameOf(r) == OrElse(r.name, PyStr(Unknown))

\* the last index of records whose name, with its default, is n
LastChapterNamed(records, n) ==
    CHOOSE i \in 1..Len(records) :
        /\ ChapterNameOf(records[i]) = n
        /\ \A j \in (i + 1)..Len(records) : ChapterNameOf(records[j]) # n

ExpectedChapters(records) ==
    [n \in {ChapterNameOf(records[i]) : i \in 1..Len(records)} |->
        OrElse(records[LastChapterNamed(records, n)].confidence, Half)]

ChaptersReplyDone ==
    /\ call.fn = "analyze_chapters_ai"
    /\ ret # Pending
    /\ "records" \in DOMAIN call

C14_ChaptersNormalised ==
    ChaptersReplyDone =>
        ret = Return(ChaptersResult(PyDict(ExpectedChapters(call.records)),
                                    OrElse(call.primary, PyStr(Unknown))))

\* a record without a name and with confidence 1.7, then a record "Physics"
\* without confidence, and no primary_subject
C14_Witness ==
    /\ ChaptersReplyDone
    /\ Len(call.records) = 2
    /\ call.records[1].name = Absent
    /\ call.records[1].confidence = Present(NumLit(<<"1", ".", "7">>, FALSE, 17, -1))
    /\ call.records[2].name = Present(StrLit(Physics))
    /\ call.records[2].confidence = Absent
    /\ call.primary = Absent
    /\ ret.ok
    /\ ret.val.primary_subject = PyStr(Unknown)
    /\ ret.val.chapters.v[PyStr(Unknown)] = PyNum([neg |-> FALSE, m |-> 17, k |-> -1])
    /\ ret.val.chapters.v[PyStr(Physics)] = Half

(***************************************************************************)
(* C15: for a reply whose "topics" field is a list of records,             *)
(* extract_topics_ai returns a mapping with a key for exactly the          *)
(* non-empty topic names of the records, each carrying the relevance of    *)
(* the last record of that name (0.5 when the record has none); a record   *)
(* with an empty or a missing topic gives no key.  The fenced reply with   *)
(* the one record {topic: "Ohm's Law", relevance: 0.9} gives               *)
(* {"Ohm's Law": 0.9}.                                                     *)
(***************************************************************************)
TopicNameOf(r) == OrElse(r.topic, PyStr(<<>>))

\* the last index of records whose topic is n
LastTopicNamed(records, n) ==
    CHOOSE i \in 1..Len(records) :
        /\ TopicNameOf(records[i]) = n
        /\ \A j \in (i + 1)..Len(records) : TopicNameOf(records[j]) # n

ExpectedTopics(records) ==
    [n \in {TopicNameOf(records[i]) : i \in 1..Len(records)} \ {PyStr(<<>>)} |->
        OrElse(records[LastTopicNamed(records, n)].relevance, Half)]

TopicsReplyDone ==
    /\ call.fn = "extract_topics_ai"
    /\ ret # Pending
    /\ "records" \in DOMAIN call

ZeroPointNine == NumLit(<<"0", ".", "9">>, FALSE, 9, -1)

OhmsLawRecord == [topic |-> Present(StrLit(OhmsLaw)), relevance |-> Present(ZeroPointNine)]

C15_TopicsNormalised ==
    TopicsReplyDone =>
        /\ ret = Return(PyDict(ExpectedTopics(call.records)))
        /\ PyStr(<<>>) \notin DOMAIN ret.val.v
        /\ (call.wrap = "fenced" /\ call.records = <<OhmsLawRecord>>)
             => ret = Return(PyDict([n \in {PyStr(OhmsLaw)} |-> ZeroPointNine.value]))

\* a fenced reply with a record without topic and the Ohm's Law record
C15_Witness ==
    /\ TopicsReplyDone
    /\ call.wrap = "fenced"
    /\ call.records = <<[topic |-> Absent, relevance |-> Present(ZeroPointNine)],
                        OhmsLawRecord>>
    /\ DOMAIN ret.val.v = {PyStr(OhmsLaw)}
    /\ ret.val.v[PyStr(OhmsLaw)] = PyNum([neg |-> FALSE, m |-> 9, k |-> -1])

(***************************************************************************)
(* The upload handler (src/app.py 144-233).  What the request holds, what  *)
(* the PDF reader gives for the saved file, what the keyword heuristics    *)
(* give for its text and what the backend does with the two requests are   *)
(* inputs of the handler.                                                  *)
(***************************************************************************)
\* most chapters and most topics in a reply of the backend during an upload
MaxAiChapters == 2
MaxAiTopics == 5

Mathematics ==
    <<"M", "a", "t", "h", "e", "m", "a", "t", "i", "c", "s">>

Biology ==
    <<"B", "i", "o", "l", "o", "g", "y">>

KineticsWord ==
    <<"k", "i", "n", "e", "t", "i", "c", "s">>

OpticsWord ==
    <<"o", "p", "t", "i", "c", "s">>

WavesWord ==
    <<"w", "a", "v", "e", "s">>

CellsWord ==
    <<"c", "e", "l", "l", "s">>

AtomsWord ==
    <<"a", "t", "o", "m", "s">>

BondsWord ==
    <<"b", "o", "n", "d", "s">>

NoFilesFound ==
    <<"N", "o", " ", "f", "i", "l", "e", "s", " ", "f", "o", "u", "n", "d",
    " ", "i", "n", " ", "r", "e", "q", "u", "e", "s", "t", ".", " ", "M",
    "a", "k", "e", " ", "s", "u", "r", "e", " ", "t", "h", "e", " ", "r",
    "e", "q", "u", "e", "s", "t", " ", "u", "s", "e", "s", " ", "m", "u",
    "l", "t", "i", "p", "a", "r", "t", "/", "f", "o", "r", "m", "-", "d",
    "a", "t", "a", ".">>

UploadKeyMustBeFile ==
    <<"U", "p", "l", "o", "a", "d", " ", "k", "e", "y", " ", "m", "u", "s",
    "t", " ", "b", "e", " ", "n", "a", "m", "e", "d", " ", "'", "f", "i",
    "l", "e", "'", ".">>

NoFileSelected ==
    <<"N", "o", " ", "f", "i", "l", "e", " ", "s", "e", "l", "e", "c", "t",
    "e", "d", ".">>

InvalidFileType ==
    <<"I", "n", "v", "a", "l", "i", "d", " ", "f", "i", "l", "e", " ", "t",
    "y", "p", "e", ".", " ", "P", "l", "e", "a", "s", "e", " ", "u", "p",
    "l", "o", "a", "d", " ", "a", " ", "P", "D", "F", ".">>

ServerErrorPrefix ==
    <<"S", "e", "r", "v", "e", "r", " ", "e", "r", "r", "o", "r", ":", " ">>

EofMarkerNotFound ==
    <<"E", "O", "F", " ", "m", "a", "r", "k", "e", "r", " ", "n", "o", "t",
    " ", "f", "o", "u", "n", "d">>

AiPrefix ==
    <<"a", "i", "_">>

BasicFallback ==
    <<"b", "a", "s", "i", "c", "_", "f", "a", "l", "l", "b", "a", "c", "k">>

TrueWord ==
    <<"t", "r", "u", "e">>

TrueCapitalised ==
    <<"T", "r", "u", "e">>

FalseWord ==
    <<"f", "a", "l", "s", "e">>

PdfExtension ==
    <<"p", "d", "f">>

PaperPdf ==
    <<"p", "a", "p", "e", "r", ".", "p", "d", "f">>

PaperUpperPdf ==
    <<"P", "A", "P", "E", "R", ".", "P", "D", "F">>

NotesTxt ==
    <<"n", "o", "t", "e", "s", ".", "t", "x", "t">>

UploadFolder ==
    <<"u", "p", "l", "o", "a", "d", "s">>

UseAiKey ==
    <<"u", "s", "e", "_", "a", "i">>
\* a whole number as a Python value
PyInt(n) == PyNum(Normalised(FALSE, n, 0))

ChapterNames == <<Physics, Chemistry, Biology>>
TopicWords == <<KineticsWord, OpticsWord, WavesWord, CellsWord, AtomsWord, BondsWord>>

\* what analyze_chapters(text) gives: subject -> keyword count
BasicChapterResults ==
    {EmptyDict,
     [n \in {PyStr(Physics)} |-> PyInt(3)],
     [n \in {PyStr(Physics), PyStr(Mathematics)} |->
         IF n = PyStr(Physics) THEN PyInt(3) ELSE PyInt(1)]}

\* what extract_topics(text) gives: word -> count
BasicTopicResults ==
    {EmptyDict,
     [n \in {PyStr(KineticsWord)} |-> PyInt(2)],
     [n \in {PyStr(KineticsWord), PyStr(PdfExtension)} |->
         IF n = PyStr(KineticsWord) THEN PyInt(2) ELSE PyInt(1)]}

\* a reply naming the first n chapters, and one naming the first n topics
AiChapterRecords(n) ==
    [i \in 1..n |->
        [name |-> Present(StrLit(ChapterNames[i])),
         confidence |-> Present(NumLit(<<"0", ".", "4", "5">>, FALSE, 45, -2))]]

AiTopicRecords(n) ==
    [i \in 1..n |->
        [topic |-> Present(StrLit(TopicWords[i])),
         relevance |-> Present(NumLit(<<"0", ".", "9">>, FALSE, 9, -1))]]

ReplyOutcome(text) == [kind |-> "reply", text |-> PyStr(text)]

\* the request of the client library fails
FailedRequests ==
    {[kind |-> "request_error", exc |-> e] : e \in RequestErrors}

UploadChapterOutcomes ==
    {ReplyOutcome(ChaptersReplyText(AiChapterRecords(n), Absent)) : n \in 0..MaxAiChapters}
        \cup {ReplyOutcome(HelloWorld)} \cup FailedRequests

UploadTopicOutcomes ==
    {ReplyOutcome(TopicsReplyText(AiTopicRecords(n))) : n \in 0..MaxAiTopics}
        \cup {ReplyOutcome(HelloWorld)} \cup FailedRequests

\* no key, a key for Gemini only, a key for every backend
NoKeys ==
    [GROQ_AVAILABLE |-> TRUE, GROQ_API_KEY |-> PyNone,
     GEMINI_AVAILABLE |-> TRUE, GEMINI_API_KEY |-> PyNone,
     OPENAI_AVAILABLE |-> TRUE, OPENAI_API_KEY |-> PyNone]

GeminiOnly == [NoKeys EXCEPT !.GEMINI_API_KEY = PyStr(<<"k">>)]

UploadEnvironments == {NoKeys, GeminiOnly, AllUsable}

\* allowed_file (src/app.py 64-65)
HasDot(filename) == Contains(filename, ".")
LastDot(filename) ==
    CHOOSE i \in 1..Len(filename) :
        filename[i] = "." /\ \A j \in (i + 1)..Len(filename) : filename[j] # "."
allowed_file(filename) ==
    HasDot(filename) /\ Lower(SliceFrom(filename, LastDot(filename))) = PdfExtension

\* os.path.join(app.config['UPLOAD_FOLDER'], filename)
PathJoin(folder, filename) == folder \o <<"/">> \o filename

\* request.form.get('use_ai', 'true').lower() == 'true'
UseAi(form) == Lower(DictGet(PyDict(form), UseAiKey, PyStr(TrueWord)).v) = TrueWord

\* f"ai_{DEFAULT_PROVIDER}"
AiMethod == AiPrefix \o DEFAULT_PROVIDER

SupplementedBasicWins(target, basic) ==
    [k \in (DOMAIN target) \cup (DOMAIN basic) |->
        IF k \in DOMAIN basic THEN basic[k] ELSE target[k]]

\* lines 189-194 and 196-201: the entries of basic whose name target lacks
\* are added to target
Supplemented(target, basic) ==
    [k \in (DOMAIN target) \cup (DOMAIN basic) |->
        IF k \in DOMAIN target THEN target[k] ELSE basic[k]]

FileKey ==
    <<"f", "i", "l", "e">>

DocumentKey ==
    <<"d", "o", "c", "u", "m", "e", "n", "t">>

MyPaperPdf ==
    <<"M", "y", " ", "P", "a", "p", "e", "r", ".", "P", "D", "F">>

MyPaperSecured ==
    <<"M", "y", "_", "P", "a", "p", "e", "r", ".", "P", "D", "F">>
\* werkzeug's secure_filename on a name without path separators: blanks
\* become underscores, other characters outside [A-Za-z0-9_.-] are dropped
RECURSIVE secure_filename(_)
secure_filename(filename) ==
    IF filename = <<>> THEN <<>>
    ELSE LET c == Head(filename)
             keep == \/ \E k \in 1..26 : c \in {UpperCase[k], LowerCase[k]}
                     \/ IsDigit(c)
                     \/ c \in {"_", ".", "-"}
         IN  (IF keep THEN <<c>> ELSE IF c = " " THEN <<"_">> ELSE <<>>)
                 \o secure_filename(Tail(filename))

Response(status, body) == [status |-> status, body |-> body]

Analysed(chapters, topics, analysis_method) ==
    [chapters |-> chapters, topics |-> topics, analysis_method |-> analysis_method]

\* lines 181-203: both classifiers returned
AiAnalysis(ai_chapters, ai_topics, basic_chapters, basic_topics) ==
    LET chapters == ai_chapters.chapters.v
        topics == ai_topics.v
    IN  Analysed(IF Cardinality(DOMAIN chapters) < 2
                 THEN Supplemented(chapters, basic_chapters) ELSE chapters,
                 IF Cardinality(DOMAIN topics) < 5
                 THEN Supplemented(topics, basic_topics) ELSE topics,
                 AiMethod)

UploadAnalysisNoFallback(ai_enabled, use_ai, c, t, basic_chapters, basic_topics) ==
    IF ai_enabled /\ use_ai
    THEN IF ~c.ret.ok
         THEN [analysis |-> Analysed(EmptyDict, EmptyDict, BasicFallback),
               requests |-> c.requests, adapter |-> c.adapter]
         ELSE IF ~t.ret.ok
         THEN [analysis |-> Analysed(EmptyDict, EmptyDict, BasicFallback),
               requests |-> c.requests \o t.requests, adapter |-> t.adapter]
         ELSE [analysis |-> AiAnalysis(c.ret.val, t.ret.val,
                                       basic_chapters, basic_topics),
               requests |-> c.requests \o t.requests, adapter |-> t.adapter]
    ELSE [analysis |-> Analysed(basic_chapters, basic_topics, BasicName),
          requests |-> <<>>, adapter |-> NoAdapter]

\* lines 177-214; c and t are what analyze_chapters_ai(text) and
\* extract_topics_ai(text) give, the second only called when the first returned
UploadAnalysis(ai_enabled, use_ai, c, t, basic_chapters, basic_topics) ==
    IF ai_enabled /\ use_ai
    THEN IF ~c.ret.ok
         THEN [analysis |-> Analysed(basic_chapters, basic_topics, BasicFallback),
               requests |-> c.requests, adapter |-> c.adapter]
         ELSE IF ~t.ret.ok
         THEN [analysis |-> Analysed(basic_chapters, basic_topics, BasicFallback),
               requests |-> c.requests \o t.requests, adapter |-> t.adapter]
         ELSE [analysis |-> AiAnalysis(c.ret.val, t.ret.val,
                                       basic_chapters, basic_topics),
               requests |-> c.requests \o t.requests, adapter |-> t.adapter]
    ELSE [analysis |-> Analysed(basic_chapters, basic_topics, BasicName),
          requests |-> <<>>, adapter |-> NoAdapter]

\* lines 216-230: the file is removed and the result is sent
Answered(a, questions, ai_enabled, filepath, saved) ==
    [response |->
        Response(200, [success |-> TRUE,
                       total_questions |-> Len(questions),
                       chapters |-> a.analysis.chapters,
                       topics |-> a.analysis.topics,
                       sample_questions |-> SliceTo(questions, 5),
                       analysis_method |-> a.analysis.analysis_method,
                       ai_available |-> ai_enabled]),
     uploads |-> saved \ {filepath},
     requests |-> a.requests,
     adapter |-> a.adapter]

Rejected(message) ==
    [response |-> Response(400, [error |-> message]),
     uploads |-> uploads, requests |-> <<>>, adapter |-> NoAdapter]

\* upload_file (lines 144-233)
upload_file(request, extracted, questions, ai_enabled, c, t, basic_chapters, basic_topics) ==
    IF DOMAIN request.files = {} THEN Rejected(NoFilesFound)
    ELSE IF FileKey \notin DOMAIN request.files THEN Rejected(UploadKeyMustBeFile)
    ELSE IF request.files[FileKey] = <<>> THEN Rejected(NoFileSelected)
    ELSE IF ~allowed_file(request.files[FileKey]) THEN Rejected(InvalidFileType)
    ELSE
      LET filepath == PathJoin(UploadFolder, secure_filename(request.files[FileKey]))
          saved == uploads \cup {filepath}
      IN  IF ~extracted.ok
          THEN [response |->
                    Response(500, [error |-> ServerErrorPrefix \o extracted.exc.msg]),
                uploads |-> saved, requests |-> <<>>, adapter |-> NoAdapter]
          ELSE Answered(UploadAnalysis(ai_enabled, UseAi(request.form), c, t,
                                       basic_chapters, basic_topics),
                        questions, ai_enabled, filepath, saved)

(***************************************************************************)
(* Upload requests and the handler in use.                                 *)
(***************************************************************************)
UploadedFiles ==
    {EmptyDict,
     [k \in {DocumentKey} |-> PaperPdf],
     [k \in {FileKey} |-> <<>>],
     [k \in {FileKey} |-> NotesTxt],
     [k \in {FileKey} |-> PaperPdf],
     [k \in {FileKey} |-> MyPaperPdf]}

UploadForms ==
    {EmptyDict,
     [k \in {UseAiKey} |-> PyStr(TrueCapitalised)],
     [k \in {UseAiKey} |-> PyStr(FalseWord)]}

UploadRequests == [files : UploadedFiles, form : UploadForms]

\* extract_text_from_pdf(filepath): the text of the file, or the error of
\* the PDF reader
Extractions ==
    {Return(PyStr(PosText(2))), Raise("PdfReadError", EofMarkerNotFound)}

\* identify_questions(text)
QuestionLists == {<<>>, [i \in 1..6 |-> PosText(i)]}

\* the request passes the checks of lines 148-163
ValidUpload(request) ==
    /\ FileKey \in DOMAIN request.files
    /\ request.files[FileKey] # <<>>
    /\ allowed_file(request.files[FileKey])

\* a classifier that was not called
NotCalled == [ret |-> Pending, adapter |-> NoAdapter, requests |-> <<>>]

InitUpload ==
    /\ env \in UploadEnvironments
    /\ call = NoCall
    /\ adapter = NoAdapter
    /\ requests = <<>>
    /\ ret = Pending
    /\ sleeps = <<>>
    /\ uploads = {}

\* the handler ends with outcome r
UploadCompletes(r) ==
    /\ ret' = Return(r.response)
    /\ uploads' = r.uploads
    /\ requests' = r.requests
    /\ adapter' = r.adapter

Uploads(request, extracted, questions, ai_enabled, c, t, basic_chapters, basic_topics) ==
    /\ call' = [fn |-> "upload_file", request |-> request, extracted |-> extracted,
                questions |-> questions, ai_enabled |-> ai_enabled,
                asked |-> ai_enabled /\ UseAi(request.form),
                ai_chapters |-> IF ai_enabled /\ UseAi(request.form)
                                THEN c.ret ELSE Pending,
                ai_topics |-> IF ai_enabled /\ UseAi(request.form) /\ c.ret.ok
                              THEN t.ret ELSE Pending,
                basic_chapters |-> basic_chapters, basic_topics |-> basic_topics]
    /\ UploadCompletes(upload_file(request, extracted, questions, ai_enabled, c, t,
                                   basic_chapters, basic_topics))

UploadFile ==
    /\ ret = Pending
    /\ \E request \in UploadRequests, extracted \in Extractions :
          IF ValidUpload(request) /\ extracted.ok
          THEN \E questions \in QuestionLists, ai_enabled \in BOOLEAN,
                  chapter_outcome \in UploadChapterOutcomes,
                  topic_outcome \in UploadTopicOutcomes,
                  basic_chapters \in BasicChapterResults,
                  basic_topics \in BasicTopicResults :
                  \E c \in {analyze_chapters_ai(extracted.val, PyNone,
                                                ChapterSampleSize, chapter_outcome)},
                     t \in {extract_topics_ai(extracted.val, PyNone,
                                              TopicSampleSize, topic_outcome)} :
                     Uploads(request, extracted, questions, ai_enabled, c, t,
                             basic_chapters, basic_topics)
          ELSE Uploads(request, extracted, <<>>, FALSE, NotCalled, NotCalled,
                       EmptyDict, EmptyDict)
    /\ UNCHANGED <<env, sleeps>>

UploadDone == call.fn = "upload_file" /\ ret # Pending

(***************************************************************************)
(* C16: in the upload handler, when the AI result has fewer than 2         *)
(* chapters (fewer than 5 topics) the final mapping is the AI mapping plus *)
(* every heuristic entry whose name the AI mapping lacks, an AI entry      *)
(* keeping its AI score when the heuristic has the same name; with at      *)
(* least 2 chapters (5 topics) no heuristic entry is added.                *)
(***************************************************************************)
\* both classifiers returned during the upload
AiAnswered == UploadDone /\ call.asked /\ call.ai_chapters.ok /\ call.ai_topics.ok

\* final is ai plus the entries of basic under names ai lacks
IsSupplementOf(final, ai, basic) ==
    /\ DOMAIN final = (DOMAIN ai) \cup (DOMAIN basic)
    /\ \A k \in DOMAIN ai : final[k] = ai[k]
    /\ \A k \in (DOMAIN basic) \ (DOMAIN ai) : final[k] = basic[k]

C16_SparseResultSupplemented ==
    AiAnswered =>
        /\ ret.val.status = 200
        /\ LET ai == call.ai_chapters.val.chapters.v
               final == ret.val.body.chapters
           IN  IF Cardinality(DOMAIN ai) < 2
               THEN IsSupplementOf(final, ai, call.basic_chapters)
               ELSE final = ai
        /\ LET ai == call.ai_topics.val.v
               final == ret.val.body.topics
           IN  IF Cardinality(DOMAIN ai) < 5
               THEN IsSupplementOf(final, ai, call.basic_topics)
               ELSE final = ai

\* the AI names one chapter, Physics, which the heuristic also scores, and
\* five topics: Physics keeps 0.45, Mathematics is added, no topic is added
C16_Witness ==
    /\ AiAnswered
    /\ DOMAIN call.ai_chapters.val.chapters.v = {PyStr(Physics)}
    /\ DOMAIN call.basic_chapters = {PyStr(Physics), PyStr(Mathematics)}
    /\ ret.val.body.chapters[PyStr(Physics)] = PyNum([neg |-> FALSE, m |-> 45, k |-> -2])
    /\ ret.val.body.chapters[PyStr(Mathematics)] = PyInt(1)
    /\ Cardinality(DOMAIN call.ai_topics.val.v) = 5
    /\ DOMAIN call.basic_topics = {PyStr(KineticsWord), PyStr(PdfExtension)}
    /\ ret.val.body.topics = call.ai_topics.val.v

(***************************************************************************)
(* C17, as claimed: the analysis_method of the response names the methods  *)
(* that produced the returned chapters and topics; when entries of the     *)
(* response come from the keyword heuristic, the analysis_method does not  *)
(* name an AI backend alone.  The code reports "ai_<provider>" whenever    *)
(* both classifiers returned, supplemented or not.                         *)
(***************************************************************************)
\* the method names an AI backend and nothing else
NamesAiOnly(method) ==
    method \in {AiPrefix \o GroqName, AiPrefix \o GeminiName, AiPrefix \o OpenAIName}

\* an entry of the response was computed by the keyword heuristic
HeuristicContributed ==
    /\ UploadDone
    /\ ret.val.status = 200
    /\ \/ ~AiAnswered
       \/ \E k \in DOMAIN ret.val.body.chapters :
              k \notin DOMAIN call.ai_chapters.val.chapters.v
       \/ \E k \in DOMAIN ret.val.body.topics :
              k \notin DOMAIN call.ai_topics.val.v

C17_MethodNamesHeuristic ==
    HeuristicContributed => ~NamesAiOnly(ret.val.body.analysis_method)

(***************************************************************************)
(* run_analysis_on_bytes of the Streamlit front end                        *)
(* (src/streamlit_app.py 298-340).                                         *)
(***************************************************************************)
ErrorPrefix ==
    <<"E", "R", "R", "O", "R", ":", " ">>

ErrorMark ==
    <<"E", "R", "R", "O", "R", ":">>

AiMethodOpen ==
    <<"A", "I", " ", "(">>

AiMethodClose ==
    <<")">>

PatternBasedAiError ==
    <<"P", "a", "t", "t", "e", "r", "n", "-", "b", "a", "s", "e", "d", " ",
    "(", "A", "I", " ", "e", "r", "r", "o", "r", ")">>

PatternBased ==
    <<"P", "a", "t", "t", "e", "r", "n", "-", "b", "a", "s", "e", "d">>
\* extract_text_from_pdf_bytes (lines 69-87): the text, or f"ERROR: {e}"
extract_text_from_pdf_bytes(extracted) ==
    IF extracted.ok THEN extracted.val.v ELSE ErrorPrefix \o extracted.exc.msg

\* f"AI ({DEFAULT_PROVIDER})"
StreamlitAiMethod == AiMethodOpen \o DEFAULT_PROVIDER \o AiMethodClose

\* lines 306-332
StreamlitAnalysis(use_ai_param, ai_available, c, t, basic_chapters, basic_topics) ==
    IF use_ai_param /\ ai_available
    THEN IF ~c.ret.ok
         THEN [analysis |-> Analysed(basic_chapters, basic_topics, PatternBasedAiError),
               requests |-> c.requests, adapter |-> c.adapter]
         ELSE IF ~t.ret.ok
         THEN [analysis |-> Analysed(basic_chapters, basic_topics, PatternBasedAiError),
               requests |-> c.requests \o t.requests, adapter |-> t.adapter]
         ELSE [analysis |->
                   Analysed(IF DOMAIN c.ret.val.chapters.v = {}
                            THEN basic_chapters ELSE c.ret.val.chapters.v,
                            IF DOMAIN t.ret.val.v = {}
                            THEN basic_topics ELSE t.ret.val.v,
                            StreamlitAiMethod),
               requests |-> c.requests \o t.requests, adapter |-> t.adapter]
    ELSE [analysis |-> Analysed(basic_chapters, basic_topics, PatternBased),
          requests |-> <<>>, adapter |-> NoAdapter]

\* lines 334-340
StreamlitResult(a, text, questions) ==
    [result |-> [text |-> text, questions |-> questions,
                 chapters |-> a.analysis.chapters, topics |-> a.analysis.topics,
                 analysis_method |-> a.analysis.analysis_method],
     requests |-> a.requests,
     adapter |-> a.adapter]

run_analysis_on_bytes(extracted, use_ai_param, ai_available, questions, c, t, basic_chapters, basic_topics) ==
    IF StartsWith(extract_text_from_pdf_bytes(extracted), ErrorMark)
    THEN [result |-> [error |-> extract_text_from_pdf_bytes(extracted)],
          requests |-> <<>>, adapter |-> NoAdapter]
    ELSE StreamlitResult(StreamlitAnalysis(use_ai_param, ai_available, c, t,
                                           basic_chapters, basic_topics),
                         extract_text_from_pdf_bytes(extracted), questions)

\* the call ends with outcome r
AnalysisCompletes(r) ==
    /\ ret' = Return(r.result)
    /\ requests' = r.requests
    /\ adapter' = r.adapter

Analyses(extracted, use_ai_param, ai_available, questions, c, t, basic_chapters, basic_topics) ==
    /\ call' = [fn |-> "run_analysis_on_bytes", extracted |-> extracted,
                questions |-> questions,
                asked |-> use_ai_param /\ ai_available,
                ai_chapters |-> IF use_ai_param /\ ai_available THEN c.ret ELSE Pending,
                ai_topics |-> IF use_ai_param /\ ai_available /\ c.ret.ok
                              THEN t.ret ELSE Pending,
                basic_chapters |-> basic_chapters, basic_topics |-> basic_topics]
    /\ AnalysisCompletes(run_analysis_on_bytes(extracted, use_ai_param, ai_available,
                                               questions, c, t,
                                               basic_chapters, basic_topics))

RunAnalysisOnBytes ==
    /\ ret = Pending
    /\ \E extracted \in Extractions :
          IF extracted.ok
          THEN \E questions \in QuestionLists,
                  use_ai_param \in BOOLEAN, ai_available \in BOOLEAN,
                  chapter_outcome \in UploadChapterOutcomes,
                  topic_outcome \in UploadTopicOutcomes,
                  basic_chapters \in BasicChapterResults,
                  basic_topics \in BasicTopicResults :
                  \E c \in {analyze_chapters_ai(extracted.val, PyNone,
                                                ChapterSampleSize, chapter_outcome)},
                     t \in {extract_topics_ai(extracted.val, PyNone,
                                              TopicSampleSize, topic_outcome)} :
                     Analyses(extracted, use_ai_param, ai_available, questions,
                              c, t, basic_chapters, basic_topics)
          ELSE Analyses(extracted, FALSE, FALSE, <<>>, NotCalled, NotCalled,
                        EmptyDict, EmptyDict)
    /\ UNCHANGED <<env, sleeps, uploads>>

NextUpload == UploadFile \/ RunAnalysisOnBytes \/ ReturnToCaller

SpecUpload == InitUpload /\ [][NextUpload]_vars

(***************************************************************************)
(* C18: a failure of the AI path during an upload, a classifier raising    *)
(* or returning an empty result, gives no error response: the request      *)
(* ends successfully, with the chapters and the topics of the keyword      *)
(* heuristic in place of what the AI path failed to give.  The same holds  *)
(* for run_analysis_on_bytes.                                              *)
(***************************************************************************)
\* a handler that asked the AI classifiers has ended
AiAsked ==
    /\ call.fn \in {"upload_file", "run_analysis_on_bytes"}
    /\ ret # Pending
    /\ call.asked

\* the classifier call was made and raised
Raised(r) == ~r.ok /\ r # Pending

\* the result the handler gave to its caller
Delivered == IF call.fn = "upload_file" THEN ret.val.body ELSE ret.val

DeliveredOk ==
    /\ ret.ok
    /\ "error" \notin DOMAIN Delivered
    /\ call.fn = "upload_file" => (ret.val.status = 200 /\ ret.val.body.success)

C18_AiFailureGivesHeuristic ==
    AiAsked =>
        /\ DeliveredOk
        /\ (Raised(call.ai_chapters) \/ Raised(call.ai_topics))
             => /\ Delivered.chapters = call.basic_chapters
                /\ Delivered.topics = call.basic_topics
        /\ (call.ai_chapters.ok /\ call.ai_topics.ok
                /\ DOMAIN call.ai_chapters.val.chapters.v = {})
             => Delivered.chapters = call.basic_chapters
        /\ (call.ai_chapters.ok /\ call.ai_topics.ok
                /\ DOMAIN call.ai_topics.val.v = {})
             => Delivered.topics = call.basic_topics

\* analyze_chapters_ai raised during an upload; the response is a success
\* with the heuristic's chapters and topics
C18_Witness ==
    /\ AiAsked
    /\ call.fn = "upload_file"
    /\ Raised(call.ai_chapters)
    /\ call.ai_chapters.exc.cls = "RuntimeError"
    /\ ret.val.status = 200
    /\ DOMAIN call.basic_chapters = {PyStr(Physics), PyStr(Mathematics)}
    /\ ret.val.body.chapters = call.basic_chapters
    /\ DOMAIN call.basic_topics # {}
    /\ ret.val.body.topics = call.basic_topics
    /\ ret.val.body.analysis_method = BasicFallback

(***************************************************************************)
(* Batch question classification (src/ai_utils.py 263-304).  The call      *)
(* resolves its provider, answers at once for "basic", and otherwise walks *)
(* through questions[:max_questions]: one step of the model is one pass of *)
(* the loop, from the prompt to the append and, after a success, the       *)
(* sleep.  What the backend does with each request is an input of the      *)
(* step.                                                                   *)
(***************************************************************************)
\* most questions in a batch
MaxQuestions == 3

\* default max_questions, and the cut q[:500] of a question in its prompt
DefaultMaxQuestions == 10
QuestionCut == 500

ChapterKey ==
    <<"c", "h", "a", "p", "t", "e", "r">>

Optics ==
    <<"O", "p", "t", "i", "c", "s">>

Lenses ==
    <<"l", "e", "n", "s", "e", "s">>

\* the confidence 0.0 of a default record
ZeroConfidence == PyNum([neg |-> FALSE, m |-> 0, k |-> 0])

\* stands for the text of ANALYSIS_SYSTEM_PROMPT (lines 64-72)
ANALYSIS_SYSTEM_PROMPT == <<"ANALYSIS_SYSTEM_PROMPT">>

\* {"chapter": ..., "topics": ..., "confidence": ...}
QuestionRecord(chapter, topics, confidence) ==
    PyDict([k \in {ChapterKey, TopicsKey, ConfidenceKey} |->
               IF k = ChapterKey THEN chapter
               ELSE IF k = TopicsKey THEN topics ELSE confidence])

\* {"chapter": "Unknown", "topics": [], "confidence": 0.0}
DefaultRecord == QuestionRecord(PyStr(Unknown), PyList(<<>>), ZeroConfidence)

\* lines 292-296: data.get(...) thrice; a value that is no mapping has no get
RecordFromData(data) ==
    IF data.t = "dict"
    THEN Return(QuestionRecord(DictGet(data, ChapterKey, PyStr(Unknown)),
                               DictGet(data, TopicsKey, PyList(<<>>)),
                               DictGet(data, ConfidenceKey, Half)))
    ELSE Raise("AttributeError", <<>>)

\* line 291 onwards, unless the parse raised
RecordFromParsed(data) == IF data.ok THEN RecordFromData(data.val) ELSE data

\* the try body after `result = _call_X(...)`, unless the adapter raised
RecordFromResult(result) ==
    IF result.ok THEN RecordFromParsed(_extract_json(result.val)) ELSE result

\* QUESTION_CLASSIFY_PROMPT.format(question=q[:500])
QuestionPrompt(q) ==
    [template |-> "QUESTION_CLASSIFY_PROMPT", question |-> SliceTo(q, QuestionCut)]

\* lines 280-302 for an adapter's outcome a: the record appended, the
\* requests sent, and whether time.sleep(0.3) ran; the sleep follows the
\* append inside the try, the handler appends the default and does not sleep
Pass(name, a, body) ==
    [record |-> IF body.ok THEN body.val ELSE DefaultRecord,
     requests |-> a.requests,
     slept |-> body.ok,
     adapter |-> Called(name, a)]

\* one pass of the loop (lines 277-302)
ClassifyQuestion(name, q, outcome) ==
    IF ~IsAdapter(name)
    THEN [record |-> DefaultRecord, requests |-> <<>>, slept |-> FALSE,
          adapter |-> NoAdapter]
    ELSE Pass(name,
              Dispatch(name, QuestionPrompt(q), ANALYSIS_SYSTEM_PROMPT, outcome),
              RecordFromResult(Dispatch(name, QuestionPrompt(q),
                                        ANALYSIS_SYSTEM_PROMPT, outcome).result))

\* line 273: one default record for each question of the batch
BasicRecords(questions) == [i \in 1..Len(questions) |-> DefaultRecord]

(***************************************************************************)
(* Batches, arguments and backend behaviour of the classification model.   *)
(***************************************************************************)
\* the i-th question of a paper
QuestionText(i) == <<"Q", ToString(i), ".", " ", "W", "h", "y", "?">>

\* a question longer than the cut
LongQuestion == [i \in 1..(QuestionCut + 2) |-> IF i = 1 THEN "Q" ELSE "x"]

Batch(n) == [i \in 1..n |-> QuestionText(i)]

Batches == {Batch(n) : n \in 0..MaxQuestions} \cup {<<LongQuestion>>}

MaxQuestionsArgs == (-1..MaxQuestions) \cup {DefaultMaxQuestions}

ClassificationReply ==
    <<"{", "\"", "c", "h", "a", "p", "t", "e", "r", "\"", ":", " ", "\"",
    "O", "p", "t", "i", "c", "s", "\"", ",", " ", "\"", "t", "o", "p", "i",
    "c", "s", "\"", ":", " ", "[", "\"", "l", "e", "n", "s", "e", "s", "\"",
    "]", ",", " ", "\"", "c", "o", "n", "f", "i", "d", "e", "n", "c", "e",
    "\"", ":", " ", "0", ".", "8", "5", "}">>

EmptyObjectReply ==
    <<"{", "}">>

\* a classification, an object without the fields, a JSON list, prose, and
\* a request that fails
ClassifyOutcomes ==
    {ReplyOutcome(ClassificationReply), ReplyOutcome(EmptyObjectReply),
     ReplyOutcome(ListReply), ReplyOutcome(HelloWorld),
     [kind |-> "request_error",
      exc |-> [cls |-> "APIConnectionError", msg |-> ConnectionErrorMessage]]}

InitClassify ==
    /\ env \in UploadEnvironments
    /\ call = NoCall
    /\ adapter = NoAdapter
    /\ requests = <<>>
    /\ ret = Pending
    /\ sleeps = <<>>
    /\ uploads = {}

\* lines 263-275: the call begins; for "basic" it returns at once
ClassifyQuestionsAi ==
    /\ call = NoCall
    /\ ret = Pending
    /\ \E questions \in Batches, provider \in ProviderArgs,
          max_questions \in MaxQuestionsArgs :
          /\ call' = [fn |-> "classify_questions_ai", questions |-> questions,
                      provider |-> provider, max_questions |-> max_questions,
                      name |-> ResolveProvider(provider),
                      todo |-> IF ResolveProvider(provider) = BasicName THEN <<>>
                               ELSE SliceTo(questions, max_questions),
                      results |-> IF ResolveProvider(provider) = BasicName
                                  THEN BasicRecords(questions) ELSE <<>>,
                      outcomes |-> <<>>]
          /\ ret' = IF ResolveProvider(provider) = BasicName
                    THEN Return(PyList(BasicRecords(questions))) ELSE Pending
    /\ UNCHANGED <<env, adapter, requests, sleeps, uploads>>

\* the state after a pass p of the loop for the outcome of its request
Passed(p, outcome) ==
    /\ call' = [call EXCEPT !.todo = Tail(@),
                            !.results = Append(@, p.record),
                            !.outcomes = Append(@, outcome)]
    /\ requests' = requests \o p.requests
    /\ sleeps' = IF p.slept THEN Append(sleeps, Len(requests \o p.requests)) ELSE sleeps
    /\ adapter' = p.adapter

\* lines 277-302: the loop takes the next question
ClassifyNextQuestion ==
    /\ call.fn = "classify_questions_ai"
    /\ ret = Pending
    /\ call.todo # <<>>
    /\ \E outcome \in ClassifyOutcomes :
          Passed(ClassifyQuestion(call.name, Head(call.todo), outcome), outcome)
    /\ UNCHANGED <<env, ret, uploads>>

\* line 304: the loop is over
ClassifyReturn ==
    /\ call.fn = "classify_questions_ai"
    /\ ret = Pending
    /\ call.todo = <<>>
    /\ ret' = Return(PyList(call.results))
    /\ UNCHANGED <<env, call, adapter, requests, sleeps, uploads>>

NextClassify ==
    ClassifyQuestionsAi \/ ClassifyNextQuestion \/ ClassifyReturn \/ ReturnToCaller

SpecClassify == InitClassify /\ [][NextClassify]_vars

(***************************************************************************)
(* The finished or running batch, as the claims below look at it.          *)
(***************************************************************************)
ClassifyDone == call.fn = "classify_questions_ai" /\ ret # Pending

\* the record the i-th question of the batch gets: the classification of
\* the outcome of its own request, the default record when none was made
RecordOf(i) ==
    IF i <= Len(call.outcomes)
    THEN ClassifyQuestion(call.name, call.questions[i], call.outcomes[i]).record
    ELSE DefaultRecord

(***************************************************************************)
(* C19: for every batch, every max_questions >= 0 and every provider, the  *)
(* no-AI fallback included, classify_questions_ai returns exactly          *)
(* min(len(questions), max_questions) records, the i-th record being that  *)
(* of the i-th question; the questions beyond the cap get no record.       *)
(***************************************************************************)
C19_BatchCapped ==
    (ClassifyDone /\ call.max_questions >= 0) =>
        /\ ret.ok
        /\ ret.val.t = "list"
        /\ Len(ret.val.v) = Min(Len(call.questions), call.max_questions)
        /\ \A i \in 1..Len(ret.val.v) : ret.val.v[i] = RecordOf(i)

(***************************************************************************)
(* C20: within one batch the fixed delay elapses between any two           *)
(* consecutive requests to the provider, whether the earlier one succeeded *)
(* or failed: for every request but the last, a sleep was taken when       *)
(* exactly that many requests had been sent.                               *)
(***************************************************************************)
C20_DelayBetweenCalls ==
    call.fn = "classify_questions_ai" =>
        \A k \in 1..(Len(requests) - 1) : \E j \in 1..Len(sleeps) : sleeps[j] = k

(***************************************************************************)
(* The three classification entry points side by side: the caller makes    *)
(* one call after the other, a chapter analysis, a topic extraction or a   *)
(* batch of questions, and a batch runs to its end before the next call.   *)
(***************************************************************************)
CallAnalyzeChaptersAi == call = NoCall /\ AnalyzeChaptersAi

CallExtractTopicsAi == call = NoCall /\ ExtractTopicsAi

NextCalls ==
    \/ CallAnalyzeChaptersAi
    \/ CallExtractTopicsAi
    \/ ClassifyQuestionsAi
    \/ ClassifyNextQuestion
    \/ ClassifyReturn
    \/ ReturnToCaller

SpecCalls == InitClassify /\ [][NextCalls]_vars

(***************************************************************************)
(* C21: a call of analyze_chapters_ai or of extract_topics_ai sends at     *)
(* most one request, and a batch of classify_questions_ai at most one      *)
(* request for each question it has gone through; every request goes to    *)
(* the one provider the call resolved, also after a failure: nothing is    *)
(* sent again and no other provider is tried.                              *)
(***************************************************************************)
SentOnlyTo(name) == \A i \in 1..Len(requests) : requests[i].provider = name

C21_OneRequestOneProvider ==
    /\ CallDone =>
          /\ Len(requests) <= 1
          /\ SentOnlyTo(ResolveProvider(call.provider))
    /\ call.fn = "classify_questions_ai" =>
          /\ Len(requests) <= Len(call.results)
          /\ SentOnlyTo(call.name)

\* a batch whose first request failed and whose second request was answered:
\* two requests for two questions, both to the resolved provider
C21_Witness ==
    /\ call.fn = "classify_questions_ai"
    /\ Len(call.results) = 2
    /\ Len(call.outcomes) = 2
    /\ call.outcomes[1].kind = "request_error"
    /\ call.outcomes[2].kind = "reply"
    /\ call.results[1] = DefaultRecord
    /\ Len(requests) = 2
    /\ requests[1].provider = GeminiName
    /\ requests[2].provider = GeminiName
    /\ requests[1].prompt.question = call.questions[1]
    /\ requests[2].prompt.question = call.questions[2]

(***************************************************************************)
(* The keyword heuristics of the upload handler (src/app.py 53-62 and      *)
(* 102-123).  A mapping a heuristic returns is kept as the sequence of its *)
(* items, in the order the Python dict holds them.                         *)
(***************************************************************************)
CHAPTER_KEYWORDS ==
    <<
      [chapter |-> <<"M", "a", "t", "h", "e", "m", "a", "t", "i", "c", "s">>,
       keywords |->
         <<<<"a", "l", "g", "e", "b", "r", "a">>,
           <<"c", "a", "l", "c", "u", "l", "u", "s">>,
           <<"g", "e", "o", "m", "e", "t", "r", "y">>,
           <<"t", "r", "i", "g", "o", "n", "o", "m", "e", "t", "r", "y">>,
           <<"s", "t", "a", "t", "i", "s", "t", "i", "c", "s">>,
           <<"p", "r", "o", "b", "a", "b", "i", "l", "i", "t", "y">>>>],
      [chapter |-> <<"P", "h", "y", "s", "i", "c", "s">>,
       keywords |->
         <<<<"m", "e", "c", "h", "a", "n", "i", "c", "s">>,
           <<"t", "h", "e", "r", "m", "o", "d", "y", "n", "a", "m", "i", "c", "s">>,
           <<"o", "p", "t", "i", "c", "s">>,
           <<"e", "l", "e", "c", "t", "r", "o", "m", "a", "g", "n", "e", "t", "i", "s", "m">>,
           <<"w", "a", "v", "e", "s">>,
           <<"q", "u", "a", "n", "t", "u", "m">>>>],
      [chapter |-> <<"C", "h", "e", "m", "i", "s", "t", "r", "y">>,
       keywords |->
         <<<<"o", "r", "g", "a", "n", "i", "c">>,
           <<"i", "n", "o", "r", "g", "a", "n", "i", "c">>,
           <<"p", "h", "y", "s", "i", "c", "a", "l", " ", "c", "h", "e", "m", "i", "s", "t", "r", "y">>,
           <<"c", "h", "e", "m", "i", "c", "a", "l", " ", "b", "o", "n", "d", "i", "n", "g">>,
           <<"e", "q", "u", "i", "l", "i", "b", "r", "i", "u", "m">>>>],
      [chapter |-> <<"B", "i", "o", "l", "o", "g", "y">>,
       keywords |->
         <<<<"c", "e", "l", "l">>,
           <<"g", "e", "n", "e", "t", "i", "c", "s">>,
           <<"e", "v", "o", "l", "u", "t", "i", "o", "n">>,
           <<"e", "c", "o", "l", "o", "g", "y">>,
           <<"p", "h", "y", "s", "i", "o", "l", "o", "g", "y">>,
           <<"b", "o", "t", "a", "n", "y">>,
           <<"z", "o", "o", "l", "o", "g", "y">>>>],
      [chapter |-> <<"C", "o", "m", "p", "u", "t", "e", "r", " ", "S", "c", "i", "e", "n", "c", "e">>,
       keywords |->
         <<<<"p", "r", "o", "g", "r", "a", "m", "m", "i", "n", "g">>,
           <<"a", "l", "g", "o", "r", "i", "t", "h", "m", "s">>,
           <<"d", "a", "t", "a", " ", "s", "t", "r", "u", "c", "t", "u", "r", "e", "s">>,
           <<"d", "a", "t", "a", "b", "a", "s", "e">>,
           <<"n", "e", "t", "w", "o", "r", "k", "s">>,
           <<"o", "p", "e", "r", "a", "t", "i", "n", "g", " ", "s", "y", "s", "t", "e", "m">>>>],
      [chapter |-> <<"E", "n", "g", "l", "i", "s", "h">>,
       keywords |->
         <<<<"g", "r", "a", "m", "m", "a", "r">>,
           <<"c", "o", "m", "p", "r", "e", "h", "e", "n", "s", "i", "o", "n">>,
           <<"l", "i", "t", "e", "r", "a", "t", "u", "r", "e">>,
           <<"w", "r", "i", "t", "i", "n", "g">>,
           <<"v", "o", "c", "a", "b", "u", "l", "a", "r", "y">>>>],
      [chapter |-> <<"H", "i", "s", "t", "o", "r", "y">>,
       keywords |->
         <<<<"a", "n", "c", "i", "e", "n", "t">>,
           <<"m", "e", "d", "i", "e", "v", "a", "l">>,
           <<"m", "o", "d", "e", "r", "n">>,
           <<"c", "i", "v", "i", "l", "i", "z", "a", "t", "i", "o", "n">>,
           <<"r", "e", "v", "o", "l", "u", "t", "i", "o", "n">>,
           <<"w", "a", "r">>>>],
      [chapter |-> <<"G", "e", "o", "g", "r", "a", "p", "h", "y">>,
       keywords |->
         <<<<"p", "h", "y", "s", "i", "c", "a", "l", " ", "g", "e", "o", "g", "r", "a", "p", "h", "y">>,
           <<"h", "u", "m", "a", "n", " ", "g", "e", "o", "g", "r", "a", "p", "h", "y">>,
           <<"c", "l", "i", "m", "a", "t", "e">>, <<"m", "a", "p", "s">>,
           <<"r", "e", "s", "o", "u", "r", "c", "e", "s">>>>]
    >>

STOP_WORDS ==
    {<<"t", "h", "e">>, <<"a">>, <<"a", "n">>, <<"a", "n", "d">>,
     <<"o", "r">>, <<"b", "u", "t">>, <<"i", "n">>, <<"o", "n">>,
     <<"a", "t">>, <<"t", "o">>, <<"f", "o", "r">>, <<"o", "f">>,
     <<"w", "i", "t", "h">>, <<"b", "y">>, <<"f", "r", "o", "m">>,
     <<"a", "s">>, <<"i", "s">>, <<"w", "a", "s">>, <<"a", "r", "e">>,
     <<"w", "e", "r", "e">>, <<"b", "e">>, <<"b", "e", "e", "n">>,
     <<"b", "e", "i", "n", "g">>, <<"h", "a", "v", "e">>, <<"h", "a", "s">>,
     <<"h", "a", "d">>, <<"d", "o">>, <<"d", "o", "e", "s">>,
     <<"d", "i", "d">>, <<"w", "i", "l", "l">>, <<"w", "o", "u", "l", "d">>,
     <<"c", "o", "u", "l", "d">>, <<"s", "h", "o", "u", "l", "d">>,
     <<"m", "a", "y">>, <<"m", "i", "g", "h", "t">>, <<"m", "u", "s", "t">>,
     <<"c", "a", "n">>, <<"t", "h", "i", "s">>, <<"t", "h", "a", "t">>,
     <<"t", "h", "e", "s", "e">>, <<"t", "h", "o", "s", "e">>,
     <<"w", "h", "a", "t">>, <<"w", "h", "i", "c", "h">>, <<"w", "h", "o">>,
     <<"w", "h", "e", "n">>, <<"w", "h", "e", "r", "e">>, <<"w", "h", "y">>,
     <<"h", "o", "w">>, <<"q", "u", "e", "s", "t", "i", "o", "n">>,
     <<"a", "n", "s", "w", "e", "r">>, <<"m", "a", "r", "k", "s">>,
     <<"w", "r", "i", "t", "e">>, <<"e", "x", "p", "l", "a", "i", "n">>}

\* counts.most_common(20), and the {3,} of the word pattern
TopTopics == 20
MinWordLen == 3

Item(key, value) == [key |-> key, value |-> value]

\* [a-z], [A-Z] and \w for the characters of the model
LowerLetters == {LowerCase[k] : k \in 1..26}
UpperLetters == {UpperCase[k] : k \in 1..26}
WordChars == LowerLetters \cup UpperLetters \cup {DigitChars[d] : d \in 1..10} \cup {"_"}

IsLowerLetter(c) == c \in LowerLetters

IsWordChar(c) == c \in WordChars

\* \b just before index p: a word character on one side only
WordBoundary(s, p) == IsWordChar(At(s, p - 1)) # IsWordChar(At(s, p))

\* a keyword found anywhere, inside a longer word too
KeywordAnywhere(s, keyword, i) == HasPrefixAt(s, i, keyword)

\* the match of r'\b' + re.escape(keyword) + r'\b' at index i
KeywordAt(s, keyword, i) ==
    /\ HasPrefixAt(s, i, keyword)
    /\ WordBoundary(s, i)
    /\ WordBoundary(s, i + Len(keyword))

\* the first index from i on whose character is one of chars, 0 when there
\* is none: the search skips the indexes where no match can start
NextIn(s, i, chars) ==
    IF \E j \in i..Len(s) : s[j] \in chars
    THEN CHOOSE j \in i..Len(s) : s[j] \in chars /\ \A k \in i..(j - 1) : s[k] \notin chars
    ELSE 0

\* the matches counted from the candidate index c on (0: no candidate left)
RECURSIVE CountFrom(_, _, _)
CountFrom(s, keyword, c) ==
    IF c = 0 THEN 0
    ELSE IF KeywordAt(s, keyword, c)
    THEN 1 + CountFrom(s, keyword, NextIn(s, c + Len(keyword), {keyword[1]}))
    ELSE CountFrom(s, keyword, NextIn(s, c + 1, {keyword[1]}))

\* len(re.findall(...)): matches are taken from left to right, each search
\* resuming where the match before it ended; a match can start only at an
\* occurrence of the keyword's first character
CountMatches(s, keyword, i) == CountFrom(s, keyword, NextIn(s, i, {keyword[1]}))

\* lines 106-108: the count of a chapter over its keywords from the k-th on
RECURSIVE KeywordCount(_, _, _)
KeywordCount(s, keywords, k) ==
    IF k > Len(keywords) THEN 0
    ELSE CountMatches(s, Lower(keywords[k]), 1) + KeywordCount(s, keywords, k + 1)

\* lines 109-110: `if count: chapter_counts[chapter] = count`
ChapterItem(chapter, count) == IF count # 0 THEN <<Item(chapter, count)>> ELSE <<>>

\* lines 105-110: the chapters from the c-th on that have a count
RECURSIVE ChapterCounts(_, _)
ChapterCounts(s, c) ==
    IF c > Len(CHAPTER_KEYWORDS) THEN <<>>
    ELSE ChapterItem(CHAPTER_KEYWORDS[c].chapter,
                     KeywordCount(s, CHAPTER_KEYWORDS[c].keywords, 1))
             \o ChapterCounts(s, c + 1)

\* an order that lists the later of two equal items first
PrecedesUnstable(items, j, i) ==
    \/ items[j].value > items[i].value
    \/ items[j].value = items[i].value /\ j > i

\* item j comes before item i in a descending sort that is stable: it is
\* greater, or equal and earlier
Precedes(items, j, i) ==
    \/ items[j].value > items[i].value
    \/ items[j].value = items[i].value /\ j < i

\* sorted(items, key=lambda x: x[1], reverse=True): the item at place p is
\* the one that p - 1 items come before
SortedByValue(items) ==
    [p \in 1..Len(items) |->
        items[CHOOSE i \in 1..Len(items) :
                 Cardinality({j \in 1..Len(items) : Precedes(items, j, i)}) = p - 1]]

\* analyze_chapters (lines 102-111); None has no lower()
analyze_chapters(text) ==
    IF text.t # "str" THEN Raise("AttributeError", <<>>)
    ELSE Return(SortedByValue(ChapterCounts(Lower(text.v), 1)))

\* index just after the run of [a-z] that starts at i
RECURSIVE LettersEnd(_, _)
LettersEnd(s, i) == IF IsLowerLetter(At(s, i)) THEN LettersEnd(s, i + 1) ELSE i

\* the match of r'\b[a-z]{3,}\b' at index i: the whole run of letters, when
\* it is long enough and a word ends behind it
WordAt(s, i) ==
    /\ WordBoundary(s, i)
    /\ LettersEnd(s, i) - i >= MinWordLen
    /\ WordBoundary(s, LettersEnd(s, i))

\* the indexes from i on where the pattern matches, in ascending order
WordStarts(s, i) == SelectSeq([k \in 1..(Len(s) + 1 - i) |-> i + k - 1], LAMBDA j : WordAt(s, j))

\* re.findall(r'\b[a-z]{3,}\b', s) from index i on: a match is a whole run
\* of letters between two word boundaries, so two matches never overlap and
\* the left-to-right search takes the match at every index that has one
FindWords(s, i) == [k \in 1..Len(WordStarts(s, i)) |-> SubSeq(s, WordStarts(s, i)[k], LettersEnd(s, WordStarts(s, i)[k]) - 1)]

\* a filter that lets every word through
KeepsStopWords(w) == TRUE

\* `w not in stop_words`
NotStopWord(w) == w \notin STOP_WORDS

\* the indices at which a word of words occurs for the first time
FirstOccurrences(words) ==
    SelectSeq([i \in 1..Len(words) |-> i],
              LAMBDA i : \A j \in 1..(i - 1) : words[j] # words[i])

\* the keys of Counter(words) are its words in the order of their first
\* occurrences, each with the number of its occurrences
CounterItems(words, firsts) ==
    [k \in 1..Len(firsts) |->
        Item(words[firsts[k]],
             Cardinality({j \in 1..Len(words) : words[j] = words[firsts[k]]}))]

Counter(words) == CounterItems(words, FirstOccurrences(words))

\* a cut that keeps every entry
MostCommonAll(counts, n) == SortedByValue(counts)

\* counts.most_common(n)
MostCommon(counts, n) == SubSeq(SortedByValue(counts), 1, Min(n, Len(counts)))

\* extract_topics (lines 113-123)
extract_topics(text) ==
    Return(MostCommon(Counter(SelectSeq(FindWords(Lower(IF Falsy(text) THEN <<>> ELSE text.v), 1),
                                        NotStopWord)),
                      TopTopics))

(***************************************************************************)
(* Texts given to the heuristics: every text of up to MaxWords words of a  *)
(* small vocabulary (a capitalised keyword, a keyword alone and inside a    *)
(* longer word, stop words), joined by a blank or a hyphen, and some       *)
(* longer ones.                                                            *)
(***************************************************************************)
MaxWords == 3

Vocabulary ==
    {<<"Q", "u", "a", "n", "t", "u", "m">>,
     <<"c", "e", "l", "l">>,
     <<"c", "e", "l", "l", "s">>,
     <<"t", "h", "e">>,
     <<"W", "o", "u", "l", "d">>}

Joints == {" ", "-"}

RECURSIVE WordTexts(_)
WordTexts(n) ==
    IF n = 1 THEN Vocabulary
    ELSE {t \o <<j>> \o w : t \in WordTexts(n - 1), j \in Joints, w \in Vocabulary}

\* 5 times "mechanics", 3 times "quantum", and no other keyword
MechanicsAndQuantum ==
    <<"M", "e", "c", "h", "a", "n", "i", "c", "s", ":", " ", "m", "e", "c",
    "h", "a", "n", "i", "c", "s", ",", " ", "M", "E", "C", "H", "A", "N",
    "I", "C", "S", ";", " ", "m", "e", "c", "h", "a", "n", "i", "c", "s",
    " ", "m", "e", "c", "h", "a", "n", "i", "c", "s", ".", " ", "q", "u",
    "a", "n", "t", "u", "m", " ", "Q", "u", "a", "n", "t", "u", "m", " ",
    "q", "u", "a", "n", "t", "u", "m">>

\* keywords of two words, and a keyword in a sentence
DataStructures ==
    <<"D", "a", "t", "a", " ", "s", "t", "r", "u", "c", "t", "u", "r", "e",
    "s", " ", "a", "n", "d", " ", "t", "h", "e", " ", "o", "p", "e", "r",
    "a", "t", "i", "n", "g", " ", "s", "y", "s", "t", "e", "m", " ", "o",
    "f", " ", "a", " ", "c", "e", "l", "l", ";", " ", "p", "h", "y", "s",
    "i", "c", "a", "l", " ", "g", "e", "o", "g", "r", "a", "p", "h", "y">>

\* the i-th of the made-up words "waz", "wbz", ...
MadeUpWord(i) == <<"w", LowerCase[i], "z">>

\* how often the n-th made-up word is written: the 5th twice, and the last
\* of TopTopics + 2 words twice
Repeats(n) == IF n \in {5, TopTopics + 2} THEN 2 ELSE 1

\* the first n made-up words, one per line
RECURSIVE MadeUpText(_)
MadeUpText(n) ==
    IF n = 0 THEN <<>>
    ELSE MadeUpText(n - 1)
             \o [k \in 1..(4 * Repeats(n)) |->
                    IF k % 4 = 0 THEN "\n" ELSE MadeUpWord(n)[k % 4]]

HeuristicTexts ==
    {PyNone, PyStr(<<>>), PyStr(MechanicsAndQuantum), PyStr(DataStructures),
     PyStr(MadeUpText(TopTopics)), PyStr(MadeUpText(TopTopics + 2))}
        \cup {PyStr(t) : t \in UNION {WordTexts(n) : n \in 1..MaxWords}}

InitHeuristic ==
    /\ env = NoEnv
    /\ call = NoCall
    /\ adapter = NoAdapter
    /\ requests = <<>>
    /\ ret = Pending
    /\ sleeps = <<>>
    /\ uploads = {}

AnalyzeChapters ==
    /\ ret = Pending
    /\ \E text \in HeuristicTexts :
          /\ call' = [fn |-> "analyze_chapters", text |-> text]
          /\ ret' = analyze_chapters(text)
    /\ UNCHANGED <<env, adapter, requests, sleeps, uploads>>

ExtractTopics ==
    /\ ret = Pending
    /\ \E text \in HeuristicTexts :
          /\ call' = [fn |-> "extract_topics", text |-> text]
          /\ ret' = extract_topics(text)
    /\ UNCHANGED <<env, adapter, requests, sleeps, uploads>>

(***************************************************************************)
(* The topic heuristic of the Streamlit front end (src/streamlit_app.py    *)
(* 121-165): capitalised phrases, hyphenated terms and words around a      *)
(* scientific stem.  It has no list of stop words.                         *)
(***************************************************************************)
\* the stems of scientific_patterns (lines 131-149)
SCIENTIFIC_STEMS ==
    <<<<"m", "a", "g", "n", "e", "t", "i", "c">>,
      <<"e", "l", "e", "c", "t", "r", "i", "c">>,
      <<"t", "h", "e", "r", "m", "a", "l">>,
      <<"m", "e", "c", "h", "a", "n", "i", "c", "a", "l">>,
      <<"c", "h", "e", "m", "i", "c", "a", "l">>,
      <<"b", "i", "o", "l", "o", "g", "i", "c", "a", "l">>,
      <<"s", "y", "n", "t", "h", "e", "s", "i", "s">>,
      <<"m", "e", "t", "a", "b", "o", "l", "i", "s", "m">>,
      <<"e", "q", "u", "i", "l", "i", "b", "r", "i", "u", "m">>,
      <<"i", "n", "d", "u", "c", "t", "i", "o", "n">>,
      <<"o", "s", "c", "i", "l", "l", "a", "t", "i", "o", "n">>,
      <<"e", "x", "c", "r", "e", "t", "i", "o", "n">>,
      <<"s", "k", "e", "l", "e", "t", "a", "l">>,
      <<"m", "u", "s", "c", "u", "l", "a", "r">>,
      <<"c", "i", "r", "c", "u", "l", "a", "t", "i", "o", "n">>,
      <<"r", "e", "s", "p", "i", "r", "a", "t", "i", "o", "n">>,
      <<"p", "h", "o", "t", "o", "s", "y", "n", "t", "h", "e", "s", "i", "s">>>>

\* len(t) > 8, len(h) > 6, len(s) > 5 (lines 158-160)
MinCapitalizedLen == 8
MinHyphenatedLen == 6
MinScientificLen == 5

IsUpperLetter(c) == c \in UpperLetters

\* \s, and the index just after the run of \s that starts at i
RegexSpace == {" ", "\t", "\n", "\r", "\f"}

RECURSIVE SpacesEnd(_, _)
SpacesEnd(s, i) == IF At(s, i) \in RegexSpace THEN SpacesEnd(s, i + 1) ELSE i

\* the end of [A-Z][a-z]+ at index i, or i when there is none
CapWordEnd(s, i) ==
    IF IsUpperLetter(At(s, i)) /\ LettersEnd(s, i + 1) > i + 1
    THEN LettersEnd(s, i + 1) ELSE i

\* the end of \s+[A-Z][a-z]+ at index e, or e when there is none
CapGroupEnd(s, e) ==
    IF SpacesEnd(s, e) > e THEN
        IF CapWordEnd(s, SpacesEnd(s, e)) > SpacesEnd(s, e)
        THEN CapWordEnd(s, SpacesEnd(s, e)) ELSE e
    ELSE e

\* the longest of the ends e1 <= e2 <= e3 behind which a word ends, or 0
LastBoundary(s, e1, e2, e3) ==
    IF WordBoundary(s, e3) THEN e3
    ELSE IF WordBoundary(s, e2) THEN e2
    ELSE IF WordBoundary(s, e1) THEN e1
    ELSE 0

\* the end of the match of r'\b([A-Z][a-z]+(?:\s+[A-Z][a-z]+){0,2})\b' at
\* index i, or 0
CapitalizedEnd(s, i) ==
    IF ~WordBoundary(s, i) \/ CapWordEnd(s, i) = i THEN 0
    ELSE LastBoundary(s, CapWordEnd(s, i), CapGroupEnd(s, CapWordEnd(s, i)),
                      CapGroupEnd(s, CapGroupEnd(s, CapWordEnd(s, i))))

RECURSIVE CapitalizedFrom(_, _)
CapitalizedFrom(s, c) ==
    IF c = 0 THEN <<>>
    ELSE IF CapitalizedEnd(s, c) > 0
    THEN <<SubSeq(s, c, CapitalizedEnd(s, c) - 1)>>
             \o CapitalizedFrom(s, NextIn(s, CapitalizedEnd(s, c), UpperLetters))
    ELSE CapitalizedFrom(s, NextIn(s, c + 1, UpperLetters))

\* a match can start only at an upper-case letter
CapitalizedTerms(s, i) == CapitalizedFrom(s, NextIn(s, i, UpperLetters))

\* the end of (?:-[a-z]+)+ taken as often as it goes from index e on, the
\* last group given up when no word ends behind it; e when nothing is left
RECURSIVE HyphenGroupsEnd(_, _)
HyphenGroupsEnd(s, e) ==
    IF At(s, e) = "-" /\ LettersEnd(s, e + 1) > e + 1
    THEN IF HyphenGroupsEnd(s, LettersEnd(s, e + 1)) > LettersEnd(s, e + 1)
         THEN HyphenGroupsEnd(s, LettersEnd(s, e + 1))
         ELSE IF WordBoundary(s, LettersEnd(s, e + 1))
         THEN LettersEnd(s, e + 1) ELSE e
    ELSE e

\* the end of the match of r'\b([a-z]+(?:-[a-z]+)+)\b' at index i, or 0
HyphenatedEnd(s, i) ==
    IF WordBoundary(s, i) /\ LettersEnd(s, i) > i
          /\ HyphenGroupsEnd(s, LettersEnd(s, i)) > LettersEnd(s, i)
    THEN HyphenGroupsEnd(s, LettersEnd(s, i)) ELSE 0

\* the start, not before i, of the run of lower-case letters that ends just
\* before index h
LettersStart(s, i, h) == CHOOSE p \in i..h : (\A k \in p..(h - 1) : IsLowerLetter(s[k])) /\ \A q \in i..(p - 1) : \E k \in q..(h - 1) : ~IsLowerLetter(s[k])

\* the matches from index i on, h being the first hyphen from i on (0: none).
\* A match holds a hyphen just after its first run of letters, so up to h it
\* can start only where the run of letters before h starts
RECURSIVE HyphenatedFrom(_, _, _)
HyphenatedFrom(s, i, h) ==
    IF h = 0 THEN <<>>
    ELSE IF HyphenatedEnd(s, LettersStart(s, i, h)) > 0
    THEN <<SubSeq(s, LettersStart(s, i, h), HyphenatedEnd(s, LettersStart(s, i, h)) - 1)>>
             \o HyphenatedFrom(s, HyphenatedEnd(s, LettersStart(s, i, h)), NextIn(s, HyphenatedEnd(s, LettersStart(s, i, h)), {"-"}))
    ELSE HyphenatedFrom(s, h + 1, NextIn(s, h + 1, {"-"}))

HyphenatedTerms(s, i) == HyphenatedFrom(s, i, NextIn(s, i, {"-"}))

\* index just after the run of \w that starts at i
RECURSIVE WordRunEnd(_, _)
WordRunEnd(s, i) == IF IsWordChar(At(s, i)) THEN WordRunEnd(s, i + 1) ELSE i

\* the indexes from i on where a run of word characters starts
RunStarts(s, i) == SelectSeq([k \in 1..(Len(s) + 1 - i) |-> i + k - 1], LAMBDA j : IsWordChar(At(s, j)) /\ (j = i \/ ~IsWordChar(At(s, j - 1))))

\* the runs of word characters of s from index i on
WordRuns(s, i) == [k \in 1..Len(RunStarts(s, i)) |-> SubSeq(s, RunStarts(s, i)[k], WordRunEnd(s, RunStarts(s, i)[k]) - 1)]

\* re.findall(r'\b(\w*stem\w*)\b', s): the whole runs of word characters
\* that hold the stem
StemWords(runs, stem) == SelectSeq(runs, LAMBDA w : ContainsSub(w, stem))

\* lines 151-154: the matches of the patterns from the k-th on
RECURSIVE ScientificWords(_, _)
ScientificWords(runs, k) ==
    IF k > Len(SCIENTIFIC_STEMS) THEN <<>>
    ELSE StemWords(runs, SCIENTIFIC_STEMS[k]) \o ScientificWords(runs, k + 1)

LongCapitalized(t) == Len(t) > MinCapitalizedLen
LongHyphenated(h) == Len(h) > MinHyphenatedLen
LongScientific(w) == Len(w) > MinScientificLen

\* lines 157-161
AllTerms(s) ==
    SelectSeq(CapitalizedTerms(s, 1), LongCapitalized)
        \o SelectSeq(HyphenatedTerms(Lower(s), 1), LongHyphenated)
        \o SelectSeq(ScientificWords(WordRuns(Lower(s), 1), 1), LongScientific)

LowerAll(terms) == [k \in 1..Len(terms) |-> Lower(terms[k])]

\* extract_topics of the Streamlit front end (lines 121-165), top_n = 20
streamlit_extract_topics(text) ==
    Return(MostCommon(Counter(LowerAll(AllTerms(IF Falsy(text) THEN <<>> ELSE text.v))),
                      TopTopics))

StreamlitExtractTopics ==
    /\ ret = Pending
    /\ \E text \in HeuristicTexts :
          /\ call' = [fn |-> "streamlit_extract_topics", text |-> text]
          /\ ret' = streamlit_extract_topics(text)
    /\ UNCHANGED <<env, adapter, requests, sleeps, uploads>>

NextHeuristic == AnalyzeChapters \/ ExtractTopics \/ StreamlitExtractTopics \/ ReturnToCaller

SpecHeuristic == InitHeuristic /\ [][NextHeuristic]_vars

(***************************************************************************)
(* C22: the chapter scores of the keyword heuristic.                       *)
(***************************************************************************)
\* the keyword stands at index i of s in either case, with no word character
\* just before it and none just after it
WholeWordAt(s, keyword, i) ==
    /\ i + Len(keyword) - 1 <= Len(s)
    /\ \A k \in 1..Len(keyword) : Lower(<<s[i + k - 1]>>) = <<keyword[k]>>
    /\ i = 1 \/ s[i - 1] \notin WordChars
    /\ i + Len(keyword) > Len(s) \/ s[i + Len(keyword)] \notin WordChars

\* how often the keyword occurs in s as a whole word
Occurrences(s, keyword) == Cardinality({i \in 1..Len(s) : WholeWordAt(s, keyword, i)})

\* the occurrences in s of the keywords from the k-th on
RECURSIVE SumOccurrences(_, _, _)
SumOccurrences(s, keywords, k) ==
    IF k > Len(keywords) THEN 0
    ELSE Occurrences(s, keywords[k]) + SumOccurrences(s, keywords, k + 1)

\* the score the text gives to the c-th subject of the lexicon
SubjectScore(s, c) == SumOccurrences(s, CHAPTER_KEYWORDS[c].keywords, 1)

AnalyzeChaptersDone == call # NoCall /\ call.fn = "analyze_chapters" /\ call.text.t = "str" /\ ret.ok

\* C22: for every text, analyze_chapters returns a mapping that holds a
\* subject exactly when one of its keywords occurs in the text as a whole
\* word in either case, with the sum of the occurrence counts as its score,
\* in descending order of score; the text with 5 times "mechanics" and 3
\* times "quantum" yields the key Physics only, with a positive score.
C22_ChapterScores ==
    AnalyzeChaptersDone =>
        /\ \A c \in 1..Len(CHAPTER_KEYWORDS) :
              /\ (\E k \in 1..Len(ret.val) : ret.val[k].key = CHAPTER_KEYWORDS[c].chapter)
                     <=> SubjectScore(call.text.v, c) > 0
              /\ \A k \in 1..Len(ret.val) :
                     ret.val[k].key = CHAPTER_KEYWORDS[c].chapter
                         => ret.val[k].value = SubjectScore(call.text.v, c)
        /\ \A k \in 1..Len(ret.val) :
              /\ \E c \in 1..Len(CHAPTER_KEYWORDS) : ret.val[k].key = CHAPTER_KEYWORDS[c].chapter
              /\ \A j \in 1..Len(ret.val) : ret.val[j].key = ret.val[k].key => j = k
              /\ k < Len(ret.val) => ret.val[k].value >= ret.val[k + 1].value
        /\ call.text.v = MechanicsAndQuantum
              => Len(ret.val) = 1 /\ ret.val[1].key = Physics /\ ret.val[1].value > 0

\* the scenario text was scored: Physics alone, 5 + 3 occurrences
C22_Witness ==
    /\ AnalyzeChaptersDone
    /\ call.text.v = MechanicsAndQuantum
    /\ Occurrences(call.text.v, CHAPTER_KEYWORDS[2].keywords[1]) = 5
    /\ Occurrences(call.text.v, CHAPTER_KEYWORDS[2].keywords[6]) = 3
    /\ ret = Return(<<Item(Physics, 8)>>)

(***************************************************************************)
(* C23: texts made of stop words only.                                     *)
(***************************************************************************)
\* every word of s is a stop word in either case, and s has a word
StopWordsOnly(s) ==
    /\ WordRuns(Lower(s), 1) # <<>>
    /\ \A k \in 1..Len(WordRuns(Lower(s), 1)) : WordRuns(Lower(s), 1)[k] \in STOP_WORDS

NoLexiconKeyword(s) == \A c \in 1..Len(CHAPTER_KEYWORDS) : SubjectScore(s, c) = 0

\* the two topic scorers: the one of the Flask application and the one of
\* the Streamlit front end
TopicScorers == {"extract_topics", "streamlit_extract_topics"}

\* a finished call of one of the scorers fns on a text of stop words only
\* returned the empty mapping, and no topic result of fns has a stop word
\* as a key
StopWordsExcluded(fns) ==
    (call # NoCall /\ call.fn \in fns /\ ret.ok) =>
        /\ (call.text.t = "str" /\ StopWordsOnly(call.text.v) /\ NoLexiconKeyword(call.text.v))
              => ret.val = <<>>
        /\ call.fn \in TopicScorers
              => \A k \in 1..Len(ret.val) : ret.val[k].key \notin STOP_WORDS

\* C23: for every text made only of stop words and holding no lexicon
\* keyword, the chapter scorer returns {} and the topic scorer returns {},
\* and no stop word is ever a key of the topic result.
C23_StopWordsOnly == StopWordsExcluded({"analyze_chapters"} \cup TopicScorers)

(***************************************************************************)
(* C24: the most frequent words of the topic heuristic.                    *)
(***************************************************************************)
\* a token of the lowered text ls stands at i..e: at least MinWordLen
\* lower-case letters with no word character just before or just after
TokenSpan(ls, i, e) ==
    /\ e - i + 1 >= MinWordLen
    /\ e <= Len(ls)
    /\ \A k \in i..e : ls[k] \in LowerLetters
    /\ i = 1 \/ ls[i - 1] \notin WordChars
    /\ e = Len(ls) \/ ls[e + 1] \notin WordChars

\* the indexes of ls where the token w stands
TokenPlaces(ls, w) == {i \in 1..Len(ls) : TokenSpan(ls, i, i + Len(w) - 1) /\ HasPrefixAt(ls, i, w)}

\* the tokens of ls that are not stop words
Tokens(ls) == {SubSeq(ls, x[1], x[2]) : x \in {y \in (1..Len(ls)) \X (1..Len(ls)) : TokenSpan(ls, y[1], y[2])}} \ STOP_WORDS

Frequency(ls, w) == Cardinality(TokenPlaces(ls, w))

FirstPlace(ls, w) == CHOOSE i \in TokenPlaces(ls, w) : \A j \in TokenPlaces(ls, w) : i <= j

\* v ranks before w: it is more frequent, or as frequent and met earlier
RanksBefore(ls, v, w) ==
    \/ Frequency(ls, v) > Frequency(ls, w)
    \/ Frequency(ls, v) = Frequency(ls, w) /\ FirstPlace(ls, v) < FirstPlace(ls, w)

ExtractTopicsDone == call # NoCall /\ call.fn = "extract_topics" /\ call.text.t = "str" /\ ret.ok

\* the result holds the entries val for the lowered text ls
TopTokens(ls, val) ==
    /\ Len(val) = Min(TopTopics, Cardinality(Tokens(ls)))
    /\ \A k \in 1..Len(val) :
          /\ val[k].key \in Tokens(ls)
          /\ val[k].value = Frequency(ls, val[k].key)
          /\ k < Len(val) => RanksBefore(ls, val[k].key, val[k + 1].key)
          /\ \A w \in Tokens(ls) :
                (\A j \in 1..Len(val) : val[j].key # w)
                    => Frequency(ls, w) <= val[k].value /\ RanksBefore(ls, val[k].key, w)

\* C24: extract_topics returns at most 20 entries, the non-stop-word tokens
\* of the highest frequency, each with its exact count, in descending order
\* of count, ties in the order of first occurrence in the text; a token left
\* out never has a higher count than one included.
C24_TopTopics ==
    ExtractTopicsDone =>
        /\ Len(ret.val) <= TopTopics
        /\ TopTokens(Lower(call.text.v), ret.val)

\* TopTopics + 2 distinct words, the 5th and the last written twice: the
\* result starts with these two, holds 20 entries, and leaves out the 20th
\* and the 21st word, which are as frequent as the last entry
C24_Witness ==
    /\ ExtractTopicsDone
    /\ call.text.v = MadeUpText(TopTopics + 2)
    /\ Len(ret.val) = TopTopics
    /\ ret.val[1] = Item(MadeUpWord(5), 2)
    /\ ret.val[2] = Item(MadeUpWord(TopTopics + 2), 2)
    /\ ret.val[3] = Item(MadeUpWord(1), 1)
    /\ ret.val[TopTopics] = Item(MadeUpWord(TopTopics - 1), 1)
    /\ \A k \in 1..TopTopics : ret.val[k].key \notin {MadeUpWord(TopTopics), MadeUpWord(TopTopics + 1)}

(***************************************************************************)
(* C25: the questions of a batch are classified one by one.                *)
(***************************************************************************)
\* the request failed: the adapter raised
ProviderFailure(outcome) == outcome.kind # "reply"

\* the reply holds no JSON value: every stage of _extract_json fails
Unparseable(outcome) ==
    /\ outcome.kind = "reply"
    /\ IsDecodeError(json_loads(CleanedText(outcome.text.v)))
    /\ IsDecodeError(ParseMatch(BraceMatch(CleanedText(outcome.text.v))))
    /\ IsDecodeError(json_loads(outcome.text.v))

\* the reply holds a JSON value that is no object
NotAnObject(outcome) ==
    /\ outcome.kind = "reply"
    /\ ~Unparseable(outcome)
    /\ _extract_json(outcome.text).ok
    /\ _extract_json(outcome.text).val.t # "dict"

ParseFailure(outcome) == Unparseable(outcome) \/ NotAnObject(outcome)

\* in a batch sent to a provider, every question gone through whose outcome
\* is one of failures has the default record at its own position, every
\* record is the one of its own question and outcome, and the finished
\* batch has a record for every question up to the cap
QuestionsIndependent(failures) ==
    (call # NoCall /\ call.fn = "classify_questions_ai" /\ IsAdapter(call.name)) =>
        /\ Len(call.results) = Len(call.outcomes)
        /\ \A i \in 1..Len(call.outcomes) :
              /\ call.outcomes[i] \in failures => call.results[i] = DefaultRecord
              /\ call.results[i] = RecordOf(i)
        /\ ret # Pending =>
              /\ ret = Return(PyList(call.results))
              /\ Len(call.results) = Len(SliceTo(call.questions, call.max_questions))

\* C25: each question is classified independently: a provider or parse
\* failure on question i yields the default record (chapter Unknown, no
\* topics, confidence 0.0) at position i only, the loop goes on with
\* question i+1, and the other records are those of their own outcomes.
C25_QuestionsIndependent ==
    QuestionsIndependent({o \in ClassifyOutcomes : ProviderFailure(o) \/ ParseFailure(o)})

(***************************************************************************)
(* C27: the uploaded file and the end of its request.                      *)
(***************************************************************************)
\* the handler has returned for a request whose file it had saved
SavedUploadDone == call # NoCall /\ call.fn = "upload_file" /\ ret # Pending /\ ValidUpload(call.request)

\* the path the handler saved the file of the request under (lines 165-167)
SavedPath == PathJoin(UploadFolder, secure_filename(call.request.files[FileKey]))

\* C27: no uploaded file outlives its request: once the handler has saved
\* the file, the file is gone from the uploads folder when the handler
\* returns, on every path, the paths that answer with an error included.
C27_NoFileOutlivesRequest == SavedUploadDone => SavedPath \notin uploads

(***************************************************************************)
(* Two upload requests handled at the same time (src/app.py 144-233): the  *)
(* development server of app.run (line 236) serves each request in a       *)
(* thread of its own, so the steps of two handlers interleave.  The        *)
(* uploads folder is the one state they share: call.disk maps each path of *)
(* the folder to the document stored there, and uploads is its domain.     *)
(* Both requests carry use_ai=false, which takes the keyword analysis of   *)
(* lines 209-214.                                                          *)
(***************************************************************************)
Clients == {"first", "second"}

\* the documents sent: the text of each page, or bytes PyPDF2 cannot read
QuantumPaper ==
    [readable |-> TRUE,
     pages |-> <<<<"Q", "u", "a", "n", "t", "u", "m", " ", "m", "e", "c",
                 "h", "a", "n", "i", "c", "s", "\n", "S", "t", "a", "t", "e",
                 " ", "t", "h", "e", " ", "l", "a", "w", "s", " ", "o", "f",
                 " ", "q", "u", "a", "n", "t", "u", "m", " ", "o", "p", "t",
                 "i", "c", "s", ".">>,
                 <<>>,
                 <<"E", "x", "p", "l", "a", "i", "n", " ", "w", "a", "v",
                 "e", "s", ".">>>>]

CellPaper ==
    [readable |-> TRUE,
     pages |-> <<<<" ", " ", "T", "h", "e", " ", "c", "e", "l", "l", "\n",
                 "\n", "D", "r", "a", "w", " ", "a", " ", "c", "e", "l", "l",
                 " ", "a", "n", "d", " ", "n", "a", "m", "e", " ", "t", "h",
                 "e", " ", "p", "a", "r", "t", "s", " ", "o", "f", " ", "t",
                 "h", "e", " ", "c", "e", "l", "l", " ", "w", "a", "l", "l",
                 ".", " ">>>>]

BrokenPaper == [readable |-> FALSE, pages |-> <<>>]

Documents == {QuantumPaper, CellPaper, BrokenPaper}

ClientFilenames == {PaperPdf, MyPaperPdf, MyPaperSecured, NotesTxt}

NoSuchFile ==
    <<"[", "E", "r", "r", "n", "o", " ", "2", "]", " ", "N", "o", " ", "s",
    "u", "c", "h", " ", "f", "i", "l", "e", " ", "o", "r", " ", "d", "i",
    "r", "e", "c", "t", "o", "r", "y", ":", " ">>

\* lines 71-77: the texts of the pages that have one, joined by newlines
RECURSIVE JoinPages(_)
JoinPages(pages) ==
    IF pages = <<>> THEN <<>>
    ELSE IF Head(pages) = <<>> THEN JoinPages(Tail(pages))
    ELSE IF JoinPages(Tail(pages)) = <<>> THEN Head(pages)
    ELSE Head(pages) \o <<"\n">> \o JoinPages(Tail(pages))

\* extract_text_from_pdf (lines 67-80) on the file found at pdf_path: open
\* fails when there is none, the reader fails on bytes it cannot read, and
\* either exception is raised again
extract_text_from_pdf(disk, pdf_path) ==
    IF pdf_path \notin DOMAIN disk
    THEN Raise("FileNotFoundError", NoSuchFile \o <<"'">> \o pdf_path \o <<"'">>)
    ELSE IF ~disk[pdf_path].readable THEN Raise("PdfReadError", EofMarkerNotFound)
    ELSE Return(PyStr(JoinPages(disk[pdf_path].pages)))

\* text.splitlines() for a text whose only line break is "\n"
RECURSIVE SplitLines(_)
SplitLines(s) ==
    IF s = <<>> THEN <<>>
    ELSE IF ~Contains(s, "\n") THEN <<s>>
    ELSE <<SubSeq(s, 1, Find(s, "\n"))>> \o SplitLines(SliceFrom(s, Find(s, "\n") + 1))

StrippedLines(lines) == [k \in 1..Len(lines) |-> Strip(lines[k])]

\* identify_questions (lines 82-100) on a text without digits: none of the
\* four patterns matches, and the stripped non-empty lines are returned
identify_questions(text) == SelectSeq(StrippedLines(SplitLines(text)), LAMBDA line : line # <<>>)

\* lines 165-166
SavePath(filename) == PathJoin(UploadFolder, secure_filename(filename))

\* file.save(filepath): the document is written over whatever the path held
Written(disk, path, document) == [p \in (DOMAIN disk) \cup {path} |-> IF p = path THEN document ELSE disk[p]]

\* os.remove(filepath) inside try/except: a missing file is passed over
Removed(disk, path) == [p \in (DOMAIN disk) \ {path} |-> disk[p]]

\* lines 222-230 after the analysis of lines 209-214
BasicAnswer(text) ==
    Response(200, [success |-> TRUE,
                   total_questions |-> Len(identify_questions(text)),
                   chapters |-> analyze_chapters(PyStr(text)).val,
                   topics |-> extract_topics(PyStr(text)).val,
                   sample_questions |-> SliceTo(identify_questions(text), 5),
                   analysis_method |-> BasicName,
                   ai_available |-> TRUE])

\* lines 231-233
ServerError(e) == Response(500, [error |-> ServerErrorPrefix \o e.exc.msg])

NoResponse == [status |-> 0]

InitConcurrent ==
    /\ env = NoEnv
    /\ call \in [fn : {"concurrent_uploads"},
                 clients : [Clients -> [filename : ClientFilenames, document : Documents,
                                        pc : {"received"}, text : {<<>>},
                                        response : {NoResponse}]],
                 disk : {EmptyDict}]
    /\ adapter = NoAdapter
    /\ requests = <<>>
    /\ ret = Pending
    /\ sleeps = <<>>
    /\ uploads = {}

\* client c goes on with the fields of its record changed, the folder
\* holding disk afterwards
Steps(c, client, disk) ==
    /\ call' = [call EXCEPT !.clients[c] = client, !.disk = disk]
    /\ uploads' = DOMAIN disk
    /\ UNCHANGED <<env, adapter, requests, ret, sleeps>>

ClientAt(c, pc) == call.fn = "concurrent_uploads" /\ call.clients[c].pc = pc

\* lines 160-163: the file name is not allowed
RejectUpload ==
    \E c \in Clients :
        /\ ClientAt(c, "received")
        /\ ~allowed_file(call.clients[c].filename)
        /\ Steps(c, [call.clients[c] EXCEPT !.pc = "answered",
                                            !.response = Response(400, [error |-> InvalidFileType])],
                 call.disk)

\* lines 165-167
SaveUpload ==
    \E c \in Clients :
        /\ ClientAt(c, "received")
        /\ allowed_file(call.clients[c].filename)
        /\ Steps(c, [call.clients[c] EXCEPT !.pc = "saved"],
                 Written(call.disk, SavePath(call.clients[c].filename), call.clients[c].document))

\* lines 171-172, and 231-233 when the extraction raises
ExtractUpload ==
    \E c \in Clients :
        /\ ClientAt(c, "saved")
        /\ \E x \in {extract_text_from_pdf(call.disk, SavePath(call.clients[c].filename))} :
              Steps(c, IF x.ok
                       THEN [call.clients[c] EXCEPT !.pc = "extracted", !.text = x.val.v]
                       ELSE [call.clients[c] EXCEPT !.pc = "answered", !.response = ServerError(x)],
                    call.disk)

\* lines 175-214 with use_ai=false
AnalyseUpload ==
    \E c \in Clients :
        /\ ClientAt(c, "extracted")
        /\ Steps(c, [call.clients[c] EXCEPT !.pc = "analysed",
                                            !.response = BasicAnswer(call.clients[c].text)],
                 call.disk)

\* lines 216-230: the file is removed and the answer is sent
CleanupUpload ==
    \E c \in Clients :
        /\ ClientAt(c, "analysed")
        /\ Steps(c, [call.clients[c] EXCEPT !.pc = "answered"],
                 Removed(call.disk, SavePath(call.clients[c].filename)))

NextConcurrent == RejectUpload \/ SaveUpload \/ ExtractUpload \/ AnalyseUpload \/ CleanupUpload

SpecConcurrent == InitConcurrent /\ [][NextConcurrent]_vars

(***************************************************************************)
(* C26: upload requests are independent of each other.                     *)
(***************************************************************************)
\* the answer to the upload of document under filename when no other
\* request is under way
AnswerAlone(filename, document) ==
    IF ~allowed_file(filename) THEN Response(400, [error |-> InvalidFileType])
    ELSE IF ~document.readable THEN Response(500, [error |-> ServerErrorPrefix \o EofMarkerNotFound])
    ELSE BasicAnswer(JoinPages(document.pages))

\* client c has saved its file and not yet read it, or has its answer
OwnFileKept(c) ==
    ClientAt(c, "saved") =>
        /\ SavePath(call.clients[c].filename) \in DOMAIN call.disk
        /\ call.disk[SavePath(call.clients[c].filename)] = call.clients[c].document

OwnAnswer(c) ==
    ClientAt(c, "answered") =>
        call.clients[c].response = AnswerAlone(call.clients[c].filename, call.clients[c].document)

SameSavedName == SavePath(call.clients["first"].filename) = SavePath(call.clients["second"].filename)

\* C26: for any two upload requests handled at the same time, in any
\* interleaving of their save, extract, analyse and cleanup steps and also
\* when both files have the same sanitized name, each response is computed
\* from the bytes of the request's own file, and no request's save or
\* cleanup overwrites or removes the file the other is still to read.
C26_UploadsIndependent ==
    call.fn = "concurrent_uploads" => \A c \in Clients : OwnFileKept(c) /\ OwnAnswer(c)

====
